---- MODULE Spec2Model ----
(***************************************************************************)
(* A model of the cache-backed downloader of ws3:                          *)
(*   - pdict.PersistentDict  (the sqlite table `config`, with expiry),     *)
(*   - ws/download.py        Request.get_key, Throttle, Download.get,      *)
(*                           Download.get_proxy, Download._should_retry,   *)
(*   - download.py           the older copy of Download.get.               *)
(* Time is a natural number of clock ticks (datetime.now()).               *)
(***************************************************************************)
EXTENDS Integers, Sequences, FiniteSets, TLC

(***************************************************************************)
(* Bounds of the model.                                                    *)
(***************************************************************************)
\* the clock runs from 0 to MaxTime
MaxTime == 2
\* max_retries arguments and settings are drawn from 0..MaxRetries
MaxRetries == 2
\* the consecutive-error counter of a proxy is followed up to MaxErrors
MaxErrors == 3

(***************************************************************************)
(* Python values.  None in a string-typed slot is the string None below;   *)
(* None in an integer-typed slot (expires, max_retries, delay) is Unset.   *)
(***************************************************************************)
None == "None"
Unset == 0 - 1

\* the data argument / field: None, a str or a dict of form fields
NoData == [t |-> "None"]
StrData(s) == [t |-> "str", s |-> s]
DictData(d) == [t |-> "dict", d |-> d]

\* Python truthiness of a data value (`if self.data:`)
truthy(data) ==
    CASE data.t = "None" -> FALSE
      [] data.t = "str"  -> data.s # ""
      [] data.t = "dict" -> DOMAIN data.d # {}

\* str(data) as '{}'.format(data) prints it; only str and None reach it
format(data) ==
    CASE data.t = "str"  -> data.s
      [] data.t = "None" -> "None"
      [] OTHER           -> "{...}"

(***************************************************************************)
(* ws/download.py: Request and Request.get_key                             *)
(***************************************************************************)
Request(url, headers, data, callback) ==
    [url |-> url, headers |-> headers, data |-> data, callback |-> callback]

\* a key that also depends on the headers
get_key_with_headers(request) ==
    IF truthy(request.data)
    THEN request.url \o " " \o format(request.data) \o " " \o request.headers
    ELSE request.url \o " " \o request.headers

\* the key is the url, whatever the data
get_key_of_url(request) == request.url

\* Request.get_key: the url, and after a space the data when it is truthy
get_key(request) ==
    IF truthy(request.data)
    THEN request.url \o " " \o format(request.data)
    ELSE request.url

\* the form field names a dict of data may carry, in sorted() order
FieldNames == <<"a", "b">>

RECURSIVE urlencode_from(_, _, _)
urlencode_from(d, i, first) ==
    IF i > Len(FieldNames) THEN ""
    ELSE IF FieldNames[i] \in DOMAIN d
         THEN (IF first THEN "" ELSE "&") \o FieldNames[i] \o "=" \o d[FieldNames[i]]
              \o urlencode_from(d, i + 1, FALSE)
         ELSE urlencode_from(d, i + 1, first)

\* urllib.parse.urlencode(sorted(data.items()))
urlencode_sorted(d) == urlencode_from(d, 1, TRUE)

\* Download.get, lines 119-120: a dict of data is sent url-encoded
encode_data(data) ==
    IF data.t = "dict" THEN StrData(urlencode_sorted(data.d)) ELSE data

\* Download.get, line 121: key = key or Request(url, data=data).get_key()
request_key(url, headers, data, key) ==
    IF key # None /\ key # ""
    THEN key
    ELSE get_key(Request(url, None, encode_data(data), None))

(***************************************************************************)
(* ws/download.py: Response, SUCCESS_STATUS, NON_RETRIABLE_STATUS          *)
(***************************************************************************)
SUCCESS_STATUS == {200, 201}
LEGACY_SUCCESS_STATUS == {200}
NON_RETRIABLE_STATUS == {404}

Response(text, status_code, reason) ==
    [cls |-> "Response", text |-> text, status_code |-> status_code,
     reason |-> reason, redirect_url |-> None]

\* a cached value that is not a Response (render.py stores the page's html)
RawValue(text) == [cls |-> "str", text |-> text]

isResponse(value) == value.cls = "Response"

VARIABLES
    now,          \* datetime.now(), in ticks
    expires,      \* PersistentDict.expires (Unset: entries never expire)
    config,       \* the rows of the sqlite table `config`
    probe,        \* what the last PersistentDict operation did and returned
    keyed,        \* the Requests under comparison and the keys computed for them
    ledger,       \* the keys put and not deleted or cleared since, with the value put
    crawl,        \* the Download.threaded run in progress
    pool,         \* the threads inside Download.get_proxy and Throttle.__call__
    impl,         \* which Download is running: ws/download.py or download.py
    target,       \* the url and data that the calls of this run fetch
    delay,        \* Throttle.delay
    proxies,      \* Download.proxies
    proxy_errors, \* Download.proxy_errors
    last_time,    \* Throttle.last_time
    call          \* the Download.get call in progress, and what it did so far

vars == <<now, expires, config, probe, keyed, ledger, crawl, pool,
          impl, target, delay, proxies, proxy_errors, last_time, call>>
downloadVars == <<impl, target, delay, proxies, proxy_errors, last_time, call>>

(***************************************************************************)
(* pdict.py: PersistentDict                                                *)
(***************************************************************************)
\* serialize / deserialize: a compressed pickle; NULL is the SQL null
NULL == [null |-> TRUE]
serialize(value) == [null |-> FALSE, pickled |-> value]
NoneValue == [cls |-> "NoneType"]
deserialize(blob) == IF blob.null THEN NoneValue ELSE blob.pickled

EmptyMeta == [cls |-> "dict"]

Row(key, value, meta, updated) ==
    [key |-> key, value |-> value, meta |-> meta, updated |-> updated]

\* SELECT ... FROM config WHERE key=?
select(table, key) == {r \in table : r.key = key}

\* INSERT OR REPLACE INTO config: key is the PRIMARY KEY
insert_or_replace(table, row) == {r \in table : r.key # row.key} \cup {row}

\* an entry goes stale one tick early
is_fresh_early(t) == expires = Unset \/ now - t < expires - 1

is_fresh(t) == expires = Unset \/ now - t < expires

\* the meta of an entry that is written again is kept
setitem_keeping_meta(table, key, value) ==
    insert_or_replace(table,
        Row(key, serialize(value),
            IF select(table, key) = {} THEN serialize(EmptyMeta)
            ELSE (CHOOSE r \in select(table, key) : TRUE).meta,
            now))

\* PersistentDict.__setitem__
__setitem__(table, key, value) ==
    insert_or_replace(table, Row(key, serialize(value), serialize(EmptyMeta), now))

\* PersistentDict.__delitem__
__delitem__(table, key) == {r \in table : r.key # key}

\* PersistentDict.meta(key, value), the setter
meta_set(table, key, value) ==
    {IF r.key = key THEN [r EXCEPT !.meta = serialize(value), !.updated = now] ELSE r
        : r \in table}

KeyError == [found |-> FALSE]
Found(value) == [found |-> TRUE, value |-> value]

\* PersistentDict.__getitem__: the value, or KeyError when absent or stale
__getitem__(table, key) ==
    LET rows == select(table, key) IN
    IF rows # {}
    THEN LET row == CHOOSE r \in rows : TRUE IN
         IF is_fresh(row.updated) THEN Found(deserialize(row.value)) ELSE KeyError
    ELSE KeyError

\* PersistentDict.__contains__
__contains__(table, key) ==
    LET rows == select(table, key) IN
    rows # {} /\ is_fresh((CHOOSE r \in rows : TRUE).updated)

\* the age of an entry is never looked at
contains_regardless_of_age(table, keys, ignore_expires) ==
    {r.key : r \in {r \in table : r.key \in keys}}

\* PersistentDict.contains(keys, ignore_expires)
contains(table, keys, ignore_expires) ==
    {r.key : r \in {r \in table : r.key \in keys /\ (ignore_expires \/ is_fresh(r.updated))}}

\* PersistentDict.get(key, default, ignore_expires): falsy keys are not looked up
PersistentDict_get(table, key, ignore_expires) ==
    IF key # ""
    THEN LET rows == select(table, key) IN
         IF rows # {}
         THEN LET row == CHOOSE r \in rows : TRUE IN
              IF ignore_expires \/ is_fresh(row.updated)
              THEN Found([value |-> deserialize(row.value),
                          meta |-> deserialize(row.meta),
                          updated |-> row.updated])
              ELSE KeyError
         ELSE KeyError
    ELSE KeyError

\* PersistentDict.clear
clear(table) == {}

\* PersistentDict.__len__: SELECT count(*) FROM config
__len__(table) == Cardinality(table)

\* the argument of merge: a dict, or another PersistentDict; items are its
\* key/value pairs
OtherDict(items) == [cls |-> "dict", items |-> items]
OtherStore(items) == [cls |-> "PersistentDict", items |-> items]

\* db.keys(): a dict has the method, PersistentDict defines none
has_keys(db) == db.cls = "dict"

\* PersistentDict.merge, once db.keys() is there: every key of db that is to
\* be written is put with db's value (self[key] = db[key])
merge(table, db, override) ==
    LET written == {e \in db.items : override \/ ~__contains__(table, e.key)} IN
    {r \in table : \A e \in written : e.key # r.key}
    \cup {Row(e.key, serialize(e.value), serialize(EmptyMeta), now) : e \in written}

\* sqlite3.connect(filename, ...) is left at check_same_thread=True: the
\* connection serves only the thread that made the PersistentDict
MainThread == "MainThread"
check_same_thread(t) == t = MainThread

(***************************************************************************)
(* ws/download.py and download.py: Throttle and Download                   *)
(***************************************************************************)
NoProbe == [op |-> "none"]
NoKeyed == [pc |-> "none"]
NoCrawl == [pc |-> "none"]
NoPool == [pc |-> "none"]
IdleCall == [pc |-> "idle"]

\* Download.__init__(delay=1, max_retries=1)
DefaultDelay == 1
DefaultMaxRetries == 1

\* retries stop one attempt early
_should_retry_off_by_one(response, num_failures, max_retries) ==
    IF response.status_code \in SUCCESS_STATUS
          \/ response.status_code \in NON_RETRIABLE_STATUS
    THEN FALSE
    ELSE num_failures + 1 < max_retries

\* the non-retriable statuses are retried like any other failure
_should_retry_ignoring_non_retriable(response, num_failures, max_retries) ==
    IF response.status_code \in SUCCESS_STATUS
    THEN FALSE
    ELSE num_failures < max_retries

\* the limit is the Download's max_retries, not the call's
_should_retry_self_limit(response, num_failures, max_retries) ==
    IF response.status_code \in SUCCESS_STATUS
          \/ response.status_code \in NON_RETRIABLE_STATUS
    THEN FALSE
    ELSE num_failures < DefaultMaxRetries

\* Download._should_retry of ws/download.py
_should_retry(response, num_failures, max_retries) ==
    IF response.status_code \in SUCCESS_STATUS
          \/ response.status_code \in NON_RETRIABLE_STATUS
    THEN FALSE
    ELSE num_failures < max_retries

\* Download._should_retry of download.py: its limit is self.max_retries
legacy_should_retry(response, num_failures) ==
    IF response.status_code \in LEGACY_SUCCESS_STATUS
          \/ response.status_code \in NON_RETRIABLE_STATUS
    THEN FALSE
    ELSE num_failures < DefaultMaxRetries

\* range(max_retries + 2)
in_range_one_more(num_failures, max_retries) == num_failures < max_retries + 2

\* for num_failures in range(max_retries + 1): is num_failures in the range
in_range(num_failures, max_retries) == num_failures < max_retries + 1

should_retry(response, num_failures, max_retries) ==
    IF impl = "ws"
    THEN _should_retry(response, num_failures, max_retries)
    ELSE legacy_should_retry(response, num_failures)

\* Download.get_proxy: the proxy it returns and the list it leaves
get_proxy(list) ==
    IF list # <<>>
    THEN [proxy |-> list[Len(list)],
          proxies |-> <<list[Len(list)]>> \o SubSeq(list, 1, Len(list) - 1)]
    ELSE [proxy |-> None, proxies |-> list]

\* the proxy of an attempt: ws/download.py honours use_proxy, download.py
\* always asks get_proxy
acquire_proxy(use_proxy) ==
    IF impl = "ws" /\ ~use_proxy
    THEN [proxy |-> None, proxies |-> proxies]
    ELSE get_proxy(proxies)

\* Throttle.__call__: seconds = delay * (0.5 + random.random()), in whole ticks
Jitter(d) == IF d = 0 THEN {0} ELSE {s \in 0..(2 * d) : 2 * s >= d /\ 2 * s < 3 * d}

\* Throttle.__call__: delay = self.delay if delay is None else delay
throttle_delay(d) == IF d = Unset THEN delay ELSE d

\* one timestamp for all routes: the latest that any key has
next_time_of_any_route(ip, seconds) ==
    IF last_time = <<>> THEN now
    ELSE LET latest == CHOOSE k \in DOMAIN last_time :
                           \A x \in DOMAIN last_time : last_time[x] <= last_time[k]
         IN  last_time[latest] + seconds

\* Throttle.__call__: next_time = last_time.get(ip, now - seconds) + seconds
next_time(ip, seconds) ==
    (IF ip \in DOMAIN last_time THEN last_time[ip] ELSE now - seconds) + seconds

\* dict / Counter assignment d[k] = v
assign(d, k, v) == [x \in DOMAIN d \cup {k} |-> IF x = k THEN v ELSE d[x]]

\* collections.Counter: a missing key counts 0
count(d, k) == IF k \in DOMAIN d THEN d[k] ELSE 0

\* what one network call (session.get / session.post) can come back with
HttpStatuses == {200, 201, 404, 503}
Outcomes ==
    [kind : {"http"}, status : HttpStatuses, text : {"html"}, reason : {"reason"},
     redirected : {FALSE}]
    \cup [kind : {"http"}, status : {200}, text : {"html"}, reason : {"reason"},
          redirected : {TRUE}]
    \cup [kind : {"exception"}, text : {"timed out"}]

\* the text of the exception is dropped
error_response_without_reason(outcome) == Response("", 500, "")

\* Download.get, the except branch: Response('', 500, str(e))
error_response(outcome) == Response("", 500, outcome.text)

\* Download.get, the else branch: the Response of a structural HTTP reply;
\* download.py keeps no redirect_url
http_response(outcome) ==
    [Response(outcome.text, outcome.status, outcome.reason) EXCEPT
        !.redirect_url = IF impl = "ws" /\ outcome.redirected THEN "v" ELSE None]

\* Download.get: a cached value that is no Response is served as a 200
as_response(value) ==
    IF value = NoneValue THEN Response(None, 200, "")
    ELSE IF isResponse(value) THEN value
    ELSE Response(value.text, 200, "")

\* whatever fresh entry the cache holds is served
cache_lookup_serving_any(key, read_cache, max_retries) ==
    IF ~read_cache THEN KeyError
    ELSE LET item == __getitem__(config, key) IN
         IF ~item.found THEN KeyError
         ELSE Found(as_response(item.value))

\* the cached failure is checked as if one attempt had already failed
cache_lookup_counting_a_failure(key, read_cache, max_retries) ==
    IF ~read_cache THEN KeyError
    ELSE LET item == __getitem__(config, key) IN
         IF ~item.found THEN KeyError
         ELSE IF should_retry(as_response(item.value), 1, max_retries) THEN KeyError
         ELSE Found(as_response(item.value))

\* Download.get, the try block: the cached Response that is served, or
\* KeyError when the cache is not read, has no fresh entry, or holds a failure
\* that is to be retried
cache_lookup(key, read_cache, max_retries) ==
    IF ~read_cache THEN KeyError
    ELSE LET item == __getitem__(config, key) IN
         IF ~item.found THEN KeyError
         ELSE IF should_retry(as_response(item.value), 0, max_retries) THEN KeyError
         ELSE Found(as_response(item.value))

\* Download.get: the effective max_retries of a call
effective_retries(max_retries) ==
    IF max_retries = Unset THEN DefaultMaxRetries ELSE max_retries

\* a retry goes through the proxy of the attempt before it
StartAttempt_keeping_the_proxy(c, num_failures, seconds) ==
    LET got == IF num_failures = 0 THEN acquire_proxy(c.use_proxy)
               ELSE [proxy |-> c.proxy, proxies |-> proxies] IN
    /\ proxies' = got.proxies
    /\ call' = [c EXCEPT !.pc = "throttle",
                         !.num_failures = num_failures,
                         !.proxy = got.proxy,
                         !.next_time = next_time(got.proxy, seconds)]

\* the first statements of an iteration of the retry loop, up to the wait in
\* the Throttle: the proxy is taken and the time to wait for is fixed
StartAttempt(c, num_failures, seconds) ==
    LET got == acquire_proxy(c.use_proxy) IN
    /\ proxies' = got.proxies
    /\ call' = [c EXCEPT !.pc = "throttle",
                         !.num_failures = num_failures,
                         !.proxy = got.proxy,
                         !.next_time = next_time(got.proxy, seconds)]

\* a call served from the cache writes the entry again
GetBegin_refreshing_the_entry(read_cache, write_cache, max_retries, use_proxy, key, delay_arg) ==
    /\ call.pc = "idle"
    /\ LET k == request_key(target.url, None, target.data, key)
           m == effective_retries(max_retries)
           cached == cache_lookup(k, read_cache, m)
           c == [pc |-> "begin", key |-> k, read_cache |-> read_cache,
                 write_cache |-> write_cache, max_retries |-> m,
                 use_proxy |-> use_proxy, delay |-> delay_arg,
                 num_failures |-> 0, proxy |-> None,
                 next_time |-> 0, response |-> [cls |-> "unbound"], log |-> <<>>]
       IN  IF cached.found
           THEN /\ call' = [c EXCEPT !.pc = "done", !.response = cached.value]
                /\ config' = IF write_cache THEN __setitem__(config, k, cached.value)
                             ELSE config
                /\ UNCHANGED proxies
           ELSE /\ in_range(0, m)
                /\ \E seconds \in Jitter(throttle_delay(delay_arg)) :
                       StartAttempt(c, 0, seconds)
                /\ UNCHANGED config
    /\ UNCHANGED <<now, expires, probe, keyed, pool, ledger, crawl,
                   impl, target, delay, proxy_errors, last_time>>

\* Download.get up to its first wait: the key, the cache lookup and, on a miss,
\* the start of the first attempt.  A call served from the cache returns here.
GetBegin(read_cache, write_cache, max_retries, use_proxy, key, delay_arg) ==
    /\ call.pc = "idle"
    /\ LET k == request_key(target.url, None, target.data, key)
           m == effective_retries(max_retries)
           cached == cache_lookup(k, read_cache, m)
           c == [pc |-> "begin", key |-> k, read_cache |-> read_cache,
                 write_cache |-> write_cache, max_retries |-> m,
                 use_proxy |-> use_proxy, delay |-> delay_arg,
                 num_failures |-> 0, proxy |-> None,
                 next_time |-> 0, response |-> [cls |-> "unbound"], log |-> <<>>]
       IN  IF cached.found
           THEN /\ call' = [c EXCEPT !.pc = "done", !.response = cached.value]
                /\ UNCHANGED proxies
           ELSE /\ in_range(0, m)
                /\ \E seconds \in Jitter(throttle_delay(delay_arg)) :
                       StartAttempt(c, 0, seconds)
    /\ UNCHANGED <<now, expires, config, probe, keyed, pool, ledger, crawl,
                   impl, target, delay, proxy_errors, last_time>>

\* Throttle.__call__ returns once next_time is reached, and the request is sent
ThrottlePass ==
    /\ call.pc = "throttle"
    /\ ~(call.next_time > now)
    /\ last_time' = assign(last_time, call.proxy, call.next_time)
    /\ call' = [call EXCEPT !.pc = "net"]
    /\ UNCHANGED <<now, expires, config, probe, keyed, pool, ledger, crawl,
                   impl, target, delay, proxies, proxy_errors>>

\* only a successful Response is written to the cache
Finish_success_only(c) ==
    /\ call' = [c EXCEPT !.pc = "done"]
    /\ config' = IF c.write_cache /\ c.response.status_code \in SUCCESS_STATUS
                 THEN __setitem__(config, c.key, c.response)
                 ELSE config
    /\ UNCHANGED proxies

\* the end of Download.get: the cache write and the return
Finish(c) ==
    /\ call' = [c EXCEPT !.pc = "done"]
    /\ config' = IF c.write_cache THEN __setitem__(config, c.key, c.response) ELSE config
    /\ UNCHANGED proxies

\* the network call of one attempt comes back (or raises), and Download.get
\* runs on to its next wait or to its return
NetAttempt(outcome) ==
    /\ call.pc = "net"
    /\ (impl = "ws" /\ outcome.kind = "exception")
          => count(proxy_errors, call.proxy) < MaxErrors
    /\ LET response == IF outcome.kind = "exception"
                       THEN error_response(outcome)
                       ELSE http_response(outcome)
           c == [call EXCEPT !.response = response, !.log = Append(@, outcome)]
           break == outcome.kind = "http"
                      /\ ~should_retry(response, call.num_failures, call.max_retries)
       IN  /\ proxy_errors' =
                IF impl # "ws" THEN proxy_errors
                ELSE IF outcome.kind = "exception"
                     THEN assign(proxy_errors, call.proxy, count(proxy_errors, call.proxy) + 1)
                     ELSE IF break THEN proxy_errors
                          ELSE assign(proxy_errors, call.proxy, 0)
           /\ IF ~break /\ in_range(call.num_failures + 1, call.max_retries)
              THEN /\ \E seconds \in Jitter(throttle_delay(call.delay)) :
                          StartAttempt(c, call.num_failures + 1, seconds)
                   /\ UNCHANGED config
              ELSE Finish(c)
    /\ UNCHANGED <<now, expires, probe, keyed, pool, ledger, crawl, impl, target, delay, last_time>>

\* the caller takes the Response; the Download is ready for the next call
Return ==
    /\ call.pc = "done"
    /\ call' = IdleCall
    /\ UNCHANGED <<now, expires, config, probe, keyed, pool, ledger, crawl,
                   impl, target, delay, proxies, proxy_errors, last_time>>

\* some other user of the cache (Render.get) stores the page under the url
StoreRaw ==
    /\ call.pc = "idle"
    /\ config' = __setitem__(config, target.url, RawValue("html"))
    /\ UNCHANGED <<now, expires, probe, keyed, pool, ledger, crawl, downloadVars>>

(***************************************************************************)
(* The cache on its own: puts, deletes and lookups at arbitrary times.     *)
(***************************************************************************)
\* expires is None or a timedelta of 0..MaxExpires ticks
MaxExpires == 2
ExpiresChoices == {Unset} \cup 0..MaxExpires

\* '' is a key like any other for sqlite; it is falsy in Python
CacheKeys == {"", "k"}
CacheValues == {RawValue("v"), RawValue("w")}
MetaValues == {[cls |-> "str", text |-> "meta"]}

\* what merge is given: a dict or a PersistentDict of at most one value per key
MergeItems ==
    {{[key |-> "k", value |-> RawValue("w")]},
     {[key |-> "", value |-> RawValue("w")], [key |-> "k", value |-> RawValue("v")]}}
MergeArgs == {OtherDict(items) : items \in MergeItems}
                \cup {OtherStore(items) : items \in MergeItems}

\* the thread that made the PersistentDict and a worker thread
Threads == {MainThread, "Worker"}
ThreadCalls == {"put", "getitem", "in", "del", "contains"}


\* a Download that is given no proxies and no delay, and is not fetching
InitDownloadIdle ==
    /\ impl = "ws"
    /\ target = [url |-> "u", data |-> NoData]
    /\ delay = 0
    /\ proxies = <<>>
    /\ proxy_errors = <<>>
    /\ last_time = <<>>
    /\ call = IdleCall
    /\ ledger = {}
    /\ crawl = NoCrawl
    /\ pool = NoPool

InitCache ==
    /\ now = 0
    /\ expires \in ExpiresChoices
    /\ config = {}
    /\ probe = NoProbe
    /\ keyed = NoKeyed
    /\ InitDownloadIdle

\* time passes
Tick ==
    /\ now < MaxTime
    /\ now' = now + 1
    /\ UNCHANGED <<expires, config, probe, keyed, pool, ledger, crawl, downloadVars>>

\* cache[key] = value
Put(key, value) ==
    /\ config' = __setitem__(config, key, value)
    /\ probe' = [op |-> "put", at |-> now, key |-> key, value |-> value]
    /\ ledger' = {e \in ledger : e.key # key} \cup {[key |-> key, value |-> value]}
    /\ UNCHANGED <<now, expires, keyed, pool, crawl, downloadVars>>

\* del cache[key]
Delete(key) ==
    /\ config' = __delitem__(config, key)
    /\ probe' = [op |-> "del", at |-> now, key |-> key]
    /\ ledger' = {e \in ledger : e.key # key}
    /\ UNCHANGED <<now, expires, keyed, pool, crawl, downloadVars>>

\* cache.meta(key, value)
SetMeta(key, value) ==
    /\ config' = meta_set(config, key, value)
    /\ probe' = [op |-> "meta", at |-> now, key |-> key]
    /\ UNCHANGED <<now, expires, keyed, pool, ledger, crawl, downloadVars>>

\* cache.clear()
Clear ==
    /\ config' = clear(config)
    /\ probe' = [op |-> "clear", at |-> now]
    /\ ledger' = {}
    /\ UNCHANGED <<now, expires, keyed, pool, crawl, downloadVars>>

\* the four lookups of one key: cache[key], key in cache, cache.get(key),
\* cache.contains([key]); none of them changes the table
Lookup(key) ==
    /\ probe' = [op |-> "lookup", at |-> now, key |-> key,
                 item |-> __getitem__(config, key),
                 isin |-> __contains__(config, key),
                 get |-> PersistentDict_get(config, key, FALSE),
                 contains |-> contains(config, {key}, FALSE),
                 stored |-> contains(config, {key}, TRUE),
                 getall |-> PersistentDict_get(config, key, TRUE),
                 len |-> __len__(config)]
    /\ UNCHANGED <<now, expires, config, keyed, pool, ledger, crawl, downloadVars>>

\* cache.contains(keys, ignore_expires)
Contains(keys, ignore_expires) ==
    /\ probe' = [op |-> "contains", at |-> now, keys |-> keys,
                 ignore_expires |-> ignore_expires,
                 result |-> contains(config, keys, ignore_expires)]
    /\ UNCHANGED <<now, expires, config, keyed, pool, ledger, crawl, downloadVars>>

\* cache.merge(db, override): db.keys() raises AttributeError for a db that
\* has no such method, before anything is written
Merge(db, override) ==
    /\ IF has_keys(db)
       THEN /\ config' = merge(config, db, override)
            /\ probe' = [op |-> "merge", call |-> "merge", at |-> now, db |-> db,
                         override |-> override, before |-> config]
            /\ ledger' = {e \in ledger : \A r \in config' : r.key = e.key => r \in config}
                         \cup {e \in db.items : \E r \in config' \ config : r.key = e.key}
       ELSE /\ probe' = [op |-> "raised", call |-> "merge", at |-> now, db |-> db,
                         override |-> override, before |-> config,
                         error |-> "AttributeError"]
            /\ UNCHANGED <<config, ledger>>
    /\ UNCHANGED <<now, expires, keyed, pool, crawl, downloadVars>>

\* a call of cache[key] = value, cache[key], key in cache, del cache[key] or
\* cache.contains([key]) from a thread that did not make the PersistentDict:
\* sqlite3 raises ProgrammingError and the table is not touched
OtherThread(t, name, key) ==
    /\ ~check_same_thread(t)
    /\ probe' = [op |-> "raised", call |-> name, at |-> now, key |-> key,
                 thread |-> t, error |-> "ProgrammingError"]
    /\ UNCHANGED <<now, expires, config, keyed, pool, ledger, crawl, downloadVars>>

NextCache ==
    \/ Tick
    \/ \E key \in CacheKeys, value \in CacheValues : Put(key, value)
    \/ \E key \in CacheKeys : Delete(key)
    \/ \E key \in CacheKeys, value \in MetaValues : SetMeta(key, value)
    \/ Clear
    \/ \E key \in CacheKeys : Lookup(key)
    \/ \E keys \in SUBSET CacheKeys, ignore_expires \in BOOLEAN :
          Contains(keys, ignore_expires)
    \/ \E db \in MergeArgs, override \in BOOLEAN : Merge(db, override)
    \/ \E t \in Threads, name \in ThreadCalls, key \in CacheKeys :
          OtherThread(t, name, key)

SpecCache == InitCache /\ [][NextCache]_vars

\* C10 (as claimed): a put stamps the entry with the current time, and each of
\* the lookups cache[key], key in cache, cache.get(key), cache.contains([key])
\* finds a key exactly when it is stored and expires is None or
\* now - updated < expires.
C10_LookupFindsExactlyFresh ==
    /\ (probe.op = "put" /\ probe.at = now) =>
          /\ select(config, probe.key) # {}
          /\ \A r \in select(config, probe.key) : r.updated = now
    /\ (probe.op = "lookup" /\ probe.at = now) =>
          LET fresh == \E r \in config :
                          /\ r.key = probe.key
                          /\ (expires = Unset \/ now - r.updated < expires)
          IN  /\ probe.item.found = fresh
              /\ probe.isin = fresh
              /\ probe.get.found = fresh
              /\ (probe.key \in probe.contains) = fresh

\* C10, what the code does keep: the same statement with cache.get left out
\* for the empty key, which PersistentDict.get never looks up.
C10_ExceptGetOfFalsyKey ==
    /\ (probe.op = "put" /\ probe.at = now) =>
          /\ select(config, probe.key) # {}
          /\ \A r \in select(config, probe.key) : r.updated = now
    /\ (probe.op = "lookup" /\ probe.at = now) =>
          LET fresh == \E r \in config :
                          /\ r.key = probe.key
                          /\ (expires = Unset \/ now - r.updated < expires)
          IN  /\ probe.item.found = fresh
              /\ probe.isin = fresh
              /\ probe.get.found = (fresh /\ probe.key # "")
              /\ (probe.key \in probe.contains) = fresh
              /\ (expires = 0 => ~probe.isin)
              /\ (expires = Unset => probe.isin = (probe.stored # {}))

\* the keys put and not deleted or cleared since
LedgerKeys == {e.key : e \in ledger}

\* the table holds value under key
Holds(table, key, value) ==
    \E r \in table : r.key = key /\ ~r.value.null /\ r.value.pickled = value

\* C11 (as claimed): after cache[k] = v, while the entry is fresh and k was not
\* overwritten, deleted or cleared, k in cache is true, cache[k] == v and
\* cache.get(k)['value'] == v; a key that was deleted or never put is not in the
\* cache and cache[k] raises KeyError.
C11_PutGetRoundTrip ==
    (probe.op = "lookup" /\ probe.at = now) =>
        /\ \A e \in ledger : e.key = probe.key =>
              /\ select(config, e.key) # {}
              /\ (\A r \in select(config, e.key) :
                      expires = Unset \/ now - r.updated < expires)
                 => ( /\ probe.isin
                      /\ probe.item = Found(e.value)
                      /\ probe.get.found /\ probe.get.value.value = e.value )
        /\ probe.key \notin LedgerKeys => (~probe.isin /\ probe.item = KeyError)

\* C11, what the code does keep: the round trip through `in` and cache[k] for
\* every key, and through cache.get(k) for every key but the empty one.
C11_ExceptGetOfFalsyKey ==
    (probe.op = "lookup" /\ probe.at = now) =>
        /\ \A e \in ledger : e.key = probe.key =>
              /\ select(config, e.key) # {}
              /\ (\A r \in select(config, e.key) :
                      expires = Unset \/ now - r.updated < expires)
                 => ( /\ probe.isin
                      /\ probe.item = Found(e.value)
                      /\ IF probe.key # ""
                         THEN probe.get.found /\ probe.get.value.value = e.value
                         ELSE ~probe.get.found )
        /\ probe.key \notin LedgerKeys => (~probe.isin /\ probe.item = KeyError)

\* C12 (as claimed): the table holds at most one entry per key, len(cache) is
\* the number of distinct keys put and not deleted or cleared since, and a
\* stale entry stays stored: get and contains with ignore_expires=True still
\* return it.
C12_OneEntryPerKey ==
    /\ \A r1 \in config, r2 \in config : r1.key = r2.key => r1 = r2
    /\ __len__(config) = Cardinality(LedgerKeys)
    /\ (probe.op = "lookup" /\ probe.at = now) =>
          /\ probe.len = Cardinality(LedgerKeys)
          /\ probe.key \in LedgerKeys =>
                (probe.getall.found /\ probe.stored = {probe.key})

\* C12, what the code does keep: the same, with get(ignore_expires=True) left
\* out for the empty key.
C12_ExceptGetOfFalsyKey ==
    /\ \A r1 \in config, r2 \in config : r1.key = r2.key => r1 = r2
    /\ __len__(config) = Cardinality(LedgerKeys)
    /\ (probe.op = "lookup" /\ probe.at = now) =>
          /\ probe.len = Cardinality(LedgerKeys)
          /\ probe.key \in LedgerKeys =>
                /\ probe.getall.found = (probe.key # "")
                /\ probe.stored = {probe.key}

\* C13: contains(keys, ignore_expires) returns exactly the members of keys that
\* are stored and fresh, or with ignore_expires exactly those that are stored;
\* never a key that was not asked for or is not stored; for a single key its
\* answer is that of `k in cache`.
C13_ContainsExactlyStoredAndFresh ==
    (probe.op = "contains" /\ probe.at = now) =>
        /\ probe.result =
              {k \in probe.keys :
                  \E r \in config :
                      /\ r.key = k
                      /\ \/ probe.ignore_expires
                         \/ expires = Unset
                         \/ now - r.updated < expires}
        /\ probe.result \subseteq (probe.keys \cap LedgerKeys)
        /\ \A k \in CacheKeys :
              (probe.keys = {k} /\ ~probe.ignore_expires)
              => ((k \in probe.result) <=> __contains__(config, k))

\* two keys are asked for and both are stored, one of them stale
C13_Witness ==
    /\ probe.op = "contains" /\ probe.at = now /\ ~probe.ignore_expires
    /\ probe.keys = CacheKeys /\ LedgerKeys = CacheKeys
    /\ Cardinality(probe.result) = 1

\* C14 (as claimed): merge(other, override) copies the entries of other: without
\* override a key that was present keeps its value and an absent key of other
\* gets other's value; with override every key of other gets other's value;
\* the keys that other does not have are unchanged.
C14_MergeCopiesEntries ==
    (probe.op \in {"merge", "raised"} /\ probe.call = "merge" /\ probe.at = now) =>
        /\ probe.op = "merge"
        /\ \A e \in probe.db.items :
              IF ~probe.override /\ select(probe.before, e.key) # {}
              THEN \A r \in select(probe.before, e.key) :
                      Holds(config, e.key, r.value.pickled)
              ELSE Holds(config, e.key, e.value)
        /\ \A r \in probe.before :
              (\A e \in probe.db.items : e.key # r.key) => r \in config

\* C14, what the code does for a dict: without override a key keeps its value
\* when its entry is fresh, and a stale or absent one gets the dict's value.
C14_MergeOfDict ==
    (probe.op = "merge" /\ probe.at = now) =>
        /\ \A e \in probe.db.items :
              IF ~probe.override
                    /\ \E r \in select(probe.before, e.key) :
                          expires = Unset \/ now - r.updated < expires
              THEN \A r \in select(probe.before, e.key) : r \in config
              ELSE Holds(config, e.key, e.value)
        /\ \A r \in probe.before :
              (\A e \in probe.db.items : e.key # r.key) => r \in config

\* C15 (as claimed): calls of put, lookup, delete and contains from several
\* threads all complete without error, and the table is what the calls leave
\* in some sequential order: the keys put and not deleted since, each with the
\* value put last.
C15_ThreadsCompleteWithoutError ==
    /\ probe.op = "raised" => probe.call \notin ThreadCalls
    /\ \A e \in ledger : Holds(config, e.key, e.value)
    /\ \A r \in config : r.key \in LedgerKeys

\* C34: a write replaces the whole entry.  After cache[k] = v the one entry
\* of k has the value v, the empty meta {} and the time of the write as
\* updated, whatever meta it had before; and whatever operation runs, an entry
\* that is new or whose value has changed has the present time as updated.
C34_WritesReplaceWholeEntry ==
    [][ /\ (probe'.op = "put" /\ <<config, probe>>' # <<config, probe>>) =>
              /\ Cardinality(select(config', probe'.key)) = 1
              /\ \A r \in select(config', probe'.key) :
                    /\ ~r.value.null /\ r.value.pickled = probe'.value
                    /\ ~r.meta.null /\ r.meta.pickled = [cls |-> "dict"]
                    /\ r.updated = now
              /\ \A r \in config' : r.key # probe'.key => r \in config
        /\ \A key \in CacheKeys :
              \A r \in select(config', key) :
                  (\A old \in select(config, key) : old.value # r.value)
                      => r.updated = now ]_vars

\* the entry of k was written again at time 2 and has the empty meta, next to
\* an entry of an earlier time that still has the meta it was given
C34_Witness ==
    /\ probe.op = "put" /\ probe.key = "k" /\ probe.at = 2 /\ now = 2
    /\ \E r \in config : r.key = "k" /\ r.updated = 2 /\ r.meta = serialize(EmptyMeta)
    /\ \E r \in config : r.key = "" /\ r.updated < 2 /\ r.meta # serialize(EmptyMeta)

(***************************************************************************)
(* The cache key on its own: pairs of requests, and the keys that          *)
(* Request.get_key and Download.get compute for them.                      *)
(***************************************************************************)
KeyUrls == {"u", "u d"}
KeyHeaders == {None, "Accept: text/html"}
KeyDatas == {NoData, StrData(""), StrData("d"), StrData("e"),
             DictData([a |-> "1"]), DictData([a |-> "1", b |-> "2"])}
KeyCallbacks == {None, "parse"}
KeyArgs == {None, "k"}

\* url, headers, data: the fields of a Request and arguments of Download.get;
\* callback: the fourth field of a Request; key: the key argument of Download.get
KeyInputs ==
    [url : KeyUrls, headers : KeyHeaders, data : KeyDatas,
     callback : KeyCallbacks, key : KeyArgs]

InitKey ==
    /\ now = 0
    /\ expires = Unset
    /\ config = {}
    /\ probe = NoProbe
    /\ \E a \in KeyInputs, b \in KeyInputs : keyed = [pc |-> "new", a |-> a, b |-> b]
    /\ InitDownloadIdle

\* Request(url, headers, data, callback).get_key() of both; data is a str or None
RequestKeys ==
    /\ keyed.pc = "new"
    /\ keyed.a.data.t # "dict" /\ keyed.b.data.t # "dict"
    /\ keyed' = [keyed EXCEPT
            !.pc = "request",
            !.a = [@ EXCEPT !.key = None],
            !.b = [@ EXCEPT !.key = None]]
          @@ [ka |-> get_key(Request(keyed.a.url, keyed.a.headers, keyed.a.data, keyed.a.callback)),
              kb |-> get_key(Request(keyed.b.url, keyed.b.headers, keyed.b.data, keyed.b.callback))]
    /\ UNCHANGED <<now, expires, config, probe, pool, ledger, crawl, downloadVars>>

\* the key that Download.get(url, headers=, data=, key=) uses, for both
DownloadKeys ==
    /\ keyed.pc = "new"
    /\ keyed' = [keyed EXCEPT
            !.pc = "get",
            !.a = [@ EXCEPT !.callback = None],
            !.b = [@ EXCEPT !.callback = None]]
          @@ [ka |-> request_key(keyed.a.url, keyed.a.headers, keyed.a.data, keyed.a.key),
              kb |-> request_key(keyed.b.url, keyed.b.headers, keyed.b.data, keyed.b.key)]
    /\ UNCHANGED <<now, expires, config, probe, pool, ledger, crawl, downloadVars>>

NextKey == RequestKeys \/ DownloadKeys

SpecKey == InitKey /\ [][NextKey]_vars

\* C9: two Requests with equal url and equal data have equal get_key() whatever
\* their headers and callback are, and two Download.get calls with the same url
\* and data (and the same key argument) use the same cache key whatever headers
\* they pass.
C9_KeyIgnoresHeaders ==
    /\ (keyed.pc = "request" /\ keyed.a.url = keyed.b.url /\ keyed.a.data = keyed.b.data)
          => keyed.ka = keyed.kb
    /\ (keyed.pc = "get" /\ keyed.a.url = keyed.b.url /\ keyed.a.data = keyed.b.data
            /\ keyed.a.key = keyed.b.key)
          => keyed.ka = keyed.kb

\* two Download.get calls posting the same form to the same url under
\* different headers
C9_Witness ==
    /\ keyed.pc = "get"
    /\ keyed.a.url = keyed.b.url /\ keyed.a.data = keyed.b.data
    /\ keyed.a.key = None /\ keyed.b.key = None
    /\ keyed.a.data.t = "dict"
    /\ keyed.a.headers # keyed.b.headers
    /\ keyed.ka = "u a=1&b=2"

\* data that is a str with at least one character
NonEmpty(data) == data.t = "str" /\ data.s # ""

\* C38 (as claimed): Request.get_key is injective on (url, data): two Requests
\* that differ in url or in data never have the same key.
C38_KeyIsInjective ==
    (keyed.pc = "request" /\ keyed.ka = keyed.kb)
        => (keyed.a.url = keyed.b.url /\ keyed.a.data = keyed.b.data)

\* C38 (amended): for one url, two Requests have the same key exactly when
\* their data are equal or are both absent or empty; and two Requests without
\* data or with empty data that differ in url have different keys.
C38_KeySeparatesNonEmptyData ==
    keyed.pc = "request" =>
        /\ keyed.a.url = keyed.b.url =>
              ( keyed.ka = keyed.kb
                  <=> ( \/ keyed.a.data = keyed.b.data
                        \/ (~NonEmpty(keyed.a.data) /\ ~NonEmpty(keyed.b.data)) ) )
        /\ ( /\ keyed.a.url # keyed.b.url
             /\ ~NonEmpty(keyed.a.data) /\ ~NonEmpty(keyed.b.data) )
              => keyed.ka # keyed.kb

\* two Requests that post d and e to the same url
C38_Witness ==
    /\ keyed.pc = "request" /\ keyed.a.url = "u" /\ keyed.b.url = "u"
    /\ keyed.a.data = StrData("d") /\ keyed.b.data = StrData("e")
    /\ keyed.ka = "u d" /\ keyed.kb = "u e"

(***************************************************************************)
(* The fetch engine: Download.get called again and again for one request,  *)
(* while time passes and the cache is shared with other users.             *)
(***************************************************************************)
FetchTargets == {[url |-> "u", data |-> NoData], [url |-> "u", data |-> StrData("d")]}
FetchExpires == {Unset, 1}
FetchProxies == {<<>>}
FetchRetries == {Unset} \cup 0..MaxRetries
FetchUseProxy == {TRUE}
FetchKeys == {None}
FetchDelays == {Unset}

Init ==
    /\ now = 0
    /\ expires \in FetchExpires
    /\ config = {}
    /\ probe = NoProbe
    /\ keyed = NoKeyed
    /\ impl \in {"ws", "legacy"}
    /\ target \in FetchTargets
    /\ delay = DefaultDelay
    /\ proxies \in FetchProxies
    /\ proxy_errors = <<>>
    /\ last_time = <<>>
    /\ call = IdleCall
    /\ ledger = {}
    /\ crawl = NoCrawl
    /\ pool = NoPool

Next ==
    \/ Tick
    \/ \E read_cache \in BOOLEAN, write_cache \in BOOLEAN, max_retries \in FetchRetries,
          use_proxy \in FetchUseProxy, key \in FetchKeys, delay_arg \in FetchDelays :
            GetBegin(read_cache, write_cache, max_retries, use_proxy, key, delay_arg)
    \/ ThrottlePass
    \/ \E outcome \in Outcomes : NetAttempt(outcome)
    \/ Return
    \/ StoreRaw

Spec == Init /\ [][Next]_vars

(***************************************************************************)
(* Properties of Download.get                                              *)
(***************************************************************************)
\* an attempt whose status ends the retry loop: the success set {200, 201}
\* or the non-retriable set {404}
Terminal(o) == o.kind = "http" /\ (o.status \in {200, 201} \/ o.status \in {404})

\* the entry of the cache table under key is exactly value
CacheHolds(key, value) ==
    /\ \E r \in config : r.key = key
    /\ \A r \in config : r.key = key => (~r.value.null /\ r.value.pickled = value)

\* a fresh entry, by the glossary: expiry None, or now - updated < expiry
FreshRow(r) == expires = Unset \/ now - r.updated < expires

\* a step that starts a Download.get call of ws/download.py
WsCallStarts == call.pc = "idle" /\ call'.pc # "idle" /\ impl = "ws"

\* C1: a call of Download.get with effective max_retries = m makes at most
\* m + 1 network calls, whatever the attempts come back with.
C1_AtMostRetriesPlusOne ==
    call.pc # "idle" => Len(call.log) <= call.max_retries + 1

\* a call with max_retries = 2 that used all three attempts
C1_Witness ==
    /\ call.pc = "done" /\ call.max_retries = 2 /\ Len(call.log) = 3

\* C2: when read_cache is enabled and the cache holds a fresh entry for the
\* key whose status is 200, 201 or 404, Download.get returns that cached
\* Response and makes no network call.
C2_FreshHitServedWithoutNetwork ==
    [][ (WsCallStarts /\ call'.read_cache) =>
          \A r \in config :
             ( /\ r.key = call'.key /\ FreshRow(r)
               /\ ~r.value.null /\ r.value.pickled.cls = "Response"
               /\ r.value.pickled.status_code \in {200, 201, 404} )
             => ( /\ call'.pc = "done"
                  /\ call'.response = r.value.pickled
                  /\ call'.log = <<>> ) ]_vars

\* a cached 404 is returned to a call that had two retries to spend
C2_Witness ==
    /\ impl = "ws" /\ call.pc = "done" /\ call.read_cache /\ call.log = <<>>
    /\ call.max_retries = 2 /\ call.response.status_code = 404
    /\ expires = 1

\* C3: if every attempt returns a status outside the success and the
\* non-retriable set, exactly max_retries + 1 network calls are made, the
\* returned Response has the status of the last attempt, and with write_cache
\* that Response is what the cache holds under the key.
C3_ExhaustionReturnsLastResponse ==
    ( /\ impl = "ws" /\ call.pc = "done" /\ call.log # <<>>
      /\ \A i \in 1..Len(call.log) : call.log[i].kind = "http" /\ ~Terminal(call.log[i]) )
    => ( /\ Len(call.log) = call.max_retries + 1
         /\ call.response.cls = "Response"
         /\ call.response.status_code = call.log[Len(call.log)].status
         /\ call.write_cache => CacheHolds(call.key, call.response) )

\* max_retries = 2 and three attempts that return 503
C3_Witness ==
    /\ impl = "ws" /\ call.pc = "done" /\ call.max_retries = 2 /\ call.write_cache
    /\ Len(call.log) = 3
    /\ \A i \in 1..3 : call.log[i].kind = "http" /\ call.log[i].status = 503
    /\ CacheHolds(call.key, call.response) /\ call.response.status_code = 503

\* C4: as soon as an attempt returns 404 no further network call is made,
\* whatever number of attempts remains: the 404 is the last attempt and the call
\* has returned; a 404 on the first attempt means exactly one network call.
C4_NonRetriableShortCircuits ==
    call.pc # "idle" =>
        \A i \in 1..Len(call.log) :
            (call.log[i].kind = "http" /\ call.log[i].status = 404)
            => (i = Len(call.log) /\ call.pc = "done")

\* a 404 on the first of three possible attempts
C4_Witness ==
    /\ call.pc = "done" /\ call.max_retries = 2 /\ Len(call.log) = 1
    /\ call.log[1].kind = "http" /\ call.log[1].status = 404

\* C5: the loop stops after attempt i (from 0) exactly when its status is in
\* the success set, or in the non-retriable set, or i = max_retries: every
\* attempt that was followed by another one was neither, and a call that has
\* returned after an attempt ended on one that was.
C5_LoopStopsExactlyWhen ==
    (impl = "ws" /\ call.pc # "idle") =>
        /\ \A i \in 1..Len(call.log) :
              (i < Len(call.log) \/ call.pc # "done")
              => (~Terminal(call.log[i]) /\ i - 1 < call.max_retries)
        /\ (call.pc = "done" /\ call.log # <<>>)
              => ( \/ Terminal(call.log[Len(call.log)])
                   \/ Len(call.log) - 1 = call.max_retries )

\* an exception, then a 503, then a 200 that ends the loop
C5_Witness ==
    /\ impl = "ws" /\ call.pc = "done" /\ call.max_retries = 2 /\ Len(call.log) = 3
    /\ call.log[1].kind = "exception"
    /\ call.log[2].kind = "http" /\ call.log[2].status = 503
    /\ call.log[3].kind = "http" /\ call.log[3].status = 200

\* C6: an exception of the HTTP client never leaves Download.get: the attempt
\* yields a Response with status 500 and the exception text as reason, it
\* counts as one of the max_retries + 1 attempts, the call goes on to its next
\* attempt or returns, and when every attempt raises it returns such a Response.
C6_ExceptionBecomes500 ==
    (call.pc # "idle" /\ call.log # <<>> /\ call.log[Len(call.log)].kind = "exception")
    => ( /\ call.response = [cls |-> "Response", text |-> "", status_code |-> 500,
                              reason |-> call.log[Len(call.log)].text,
                              redirect_url |-> None]
         /\ Len(call.log) <= call.max_retries + 1
         /\ call.pc \in {"throttle", "net", "done"}
         /\ call.pc = "done" <=> Len(call.log) = call.max_retries + 1 )

\* three attempts that all raise
C6_Witness ==
    /\ call.pc = "done" /\ call.max_retries = 2 /\ Len(call.log) = 3
    /\ \A i \in 1..3 : call.log[i].kind = "exception"
    /\ call.response.status_code = 500 /\ call.response.reason = "timed out"

\* C7: with write_cache, a call that made at least one network attempt leaves
\* under its key exactly the Response it returns, whatever the outcome was.
C7_WriteIsUnconditional ==
    (call.pc = "done" /\ call.write_cache /\ call.log # <<>>)
    => CacheHolds(call.key, call.response)

\* a synthesized 500 is in the cache when the call returns it
C7_Witness ==
    /\ call.pc = "done" /\ call.write_cache /\ call.log # <<>>
    /\ call.response.status_code = 500
    /\ CacheHolds(call.key, call.response)

\* C8 (as claimed): a later Download.get with read_cache, for a key whose
\* fresh cache entry is a failure Response written by an earlier call, returns
\* the cached failure and makes no network call.
C8_CachedFailureAlwaysServed ==
    [][ (WsCallStarts /\ call'.read_cache) =>
          \A r \in config :
             ( /\ r.key = call'.key /\ FreshRow(r)
               /\ ~r.value.null /\ r.value.pickled.cls = "Response"
               /\ r.value.pickled.status_code \notin {200, 201} )
             => ( /\ call'.pc = "done"
                  /\ call'.response = r.value.pickled
                  /\ call'.log = <<>> ) ]_vars

\* C8 (amended): the cached failure is returned without a network call when
\* its status is non-retriable (404) or the later call's effective max_retries
\* is 0; a cached failure with any other status is fetched again by a call
\* whose max_retries is at least 1.
C8_CachedFailureServedUnlessRetriable ==
    [][ (WsCallStarts /\ call'.read_cache) =>
          \A r \in config :
             ( /\ r.key = call'.key /\ FreshRow(r)
               /\ ~r.value.null /\ r.value.pickled.cls = "Response"
               /\ r.value.pickled.status_code \notin {200, 201} )
             => IF r.value.pickled.status_code = 404 \/ call'.max_retries = 0
                THEN /\ call'.pc = "done"
                     /\ call'.response = r.value.pickled
                     /\ call'.log = <<>>
                ELSE call'.pc = "throttle" ]_vars

\* a cached 503 is returned to a call with max_retries = 0
C8_Witness ==
    /\ impl = "ws" /\ call.pc = "done" /\ call.read_cache /\ call.log = <<>>
    /\ call.max_retries = 0 /\ call.response.status_code = 503

\* a fresh entry of the call's key that holds a failure to retry: a Response
\* whose status is neither a success nor non-retriable
RetriableEntry(r, key) ==
    /\ r.key = key /\ FreshRow(r)
    /\ ~r.value.null /\ r.value.pickled.cls = "Response"
    /\ r.value.pickled.status_code \notin {200, 201, 404}

\* C37: what a call of ws/download.py with read_cache does with a fresh cached
\* failure of a retriable status is decided by its effective max_retries
\* alone.  With max_retries = 0 the call returns the cached Response and makes
\* no network call; with max_retries >= 1 it starts a network attempt, never
\* returns without one, and when it returns with write_cache the entry of the
\* key is the Response it returns, written at that time.
C37_RetriableEntryServedOnlyWithoutRetries ==
    [][ /\ (WsCallStarts /\ call'.read_cache) =>
              \A r \in config :
                  RetriableEntry(r, call'.key) =>
                      IF call'.max_retries = 0
                      THEN /\ call'.pc = "done" /\ call'.log = <<>>
                           /\ call'.response = r.value.pickled
                           /\ config' = config
                      ELSE /\ call'.pc = "throttle" /\ call'.log = <<>>
                           /\ call'.num_failures = 0
        /\ ( /\ impl = "ws" /\ call.pc = "net" /\ call'.pc = "done"
             /\ \E r \in config : RetriableEntry(r, call.key) ) =>
              /\ call'.log # <<>>
              /\ call.write_cache =>
                    /\ \A r \in config' : r.key = call.key =>
                          /\ ~r.value.null /\ r.value.pickled = call'.response
                          /\ r.updated = now
                    /\ \E r \in config' : r.key = call.key
              /\ ~call.write_cache => config' = config ]_vars

\* a call with read_cache and two retries to spend is in its network attempt
\* although the cache holds a fresh 503 for its key
C37_Witness ==
    /\ impl = "ws" /\ call.pc = "net" /\ call.read_cache /\ call.write_cache
    /\ call.max_retries = 2 /\ call.log = <<>> /\ expires = 1
    /\ \E r \in config : RetriableEntry(r, call.key) /\ r.value.pickled.status_code = 503

(***************************************************************************)
(* ws/download.py and download.py: Download.threaded.  The generator runs   *)
(* on the thread of its caller (MainThread); the fetches it submits run on  *)
(* the threads of the ThreadPoolExecutor.                                   *)
(***************************************************************************)
\* at most MaxRequests Request objects enter the pending list in one run
MaxRequests == 4
\* max_workers and max_queue are drawn from 1..MaxWorkers and 1..MaxQueue
MaxWorkers == 2
MaxQueue == 2

\* adt.HashDict as threaded uses it: seen = adt.HashDict(), key in seen,
\* seen.add(key)
HashDict == {}
HashDict_contains(seen, key) == key \in seen
HashDict_add(seen, key) == seen \cup {key}

\* a Request object in the run: id tells two objects of equal fields apart
RequestObject(id, url, callback) ==
    [id |-> id, url |-> url, data |-> NoData, callback |-> callback]

\* request.get_key()
key_of(request) ==
    get_key(Request(request.url, None, request.data, request.callback))

\* what a continuation yields: a Request or anything else; or it raises
YieldRequest(url) == [t |-> "Request", url |-> url]
YieldItem(value) == [t |-> "item", value |-> value]
Raise == [t |-> "raise"]

\* the keys are noted but every seed is kept
filter_requests_keeping_all(requests, seen, filtered_requests) ==
    [requests |-> requests,
     seen |-> seen \cup {key_of(requests[i]) : i \in 1..Len(requests)}]

\* threaded, lines 193-200: the seeds the run starts with and the seen set,
\* from the requests still to look at
RECURSIVE filter_requests(_, _, _)
filter_requests(requests, seen, filtered_requests) ==
    IF requests = <<>> THEN [requests |-> filtered_requests, seen |-> seen]
    ELSE LET request == Head(requests) IN
         IF ~HashDict_contains(seen, key_of(request))
         THEN filter_requests(Tail(requests), HashDict_add(seen, key_of(request)),
                              Append(filtered_requests, request))
         ELSE filter_requests(Tail(requests), seen, filtered_requests)

\* the round takes every pending request
pop_all(requests, n) == [i \in 1..Len(requests) |-> requests[Len(requests) + 1 - i]]

\* the first n elements of a list, last one first: n times requests.pop()
RECURSIVE pop_n(_, _)
pop_n(requests, n) ==
    IF n = 0 \/ requests = <<>> THEN <<>>
    ELSE <<requests[Len(requests)]>>
         \o pop_n(SubSeq(requests, 1, Len(requests) - 1), n - 1)

\* a yielded Request joins the requests of the round that is under way
admit_into_the_round(c, next_request) ==
    IF c.filter_duplicates /\ HashDict_contains(c.seen, key_of(next_request))
    THEN c
    ELSE [c EXCEPT !.seen = IF c.filter_duplicates
                            THEN HashDict_add(@, key_of(next_request)) ELSE @,
                   !.cur_requests = Append(@, next_request),
                   !.admitted = @ \cup {next_request.id},
                   !.created = Append(@, next_request),
                   !.next_id = @ + 1]

\* a yielded Request is appended although its key was seen
admit_ignoring_seen(c, next_request) ==
    [c EXCEPT !.seen = IF c.filter_duplicates
                       THEN HashDict_add(@, key_of(next_request)) ELSE @,
              !.requests = Append(@, next_request),
              !.admitted = @ \cup {next_request.id},
              !.created = Append(@, next_request),
              !.next_id = @ + 1]

\* process_callback, lines 183-189: a yielded Request is dropped when
\* filter_duplicates is set and its key was seen, and appended otherwise
admit(c, next_request) ==
    IF c.filter_duplicates /\ HashDict_contains(c.seen, key_of(next_request))
    THEN c
    ELSE [c EXCEPT !.seen = IF c.filter_duplicates
                            THEN HashDict_add(@, key_of(next_request)) ELSE @,
                   !.requests = Append(@, next_request),
                   !.admitted = @ \cup {next_request.id},
                   !.created = Append(@, next_request),
                   !.next_id = @ + 1]

\* the Future of a fetch: queued in the executor, running on a worker thread,
\* done with a Response, or raised
Future(id) ==
    [id |-> id, state |-> "queued", num_failures |-> 0, response |-> [cls |-> "unbound"]]

\* executor.submit(self.get, url=..., read_cache=False, write_cache=False) and
\* future_to_request[future] = request
submit(c, request) ==
    [c EXCEPT !.futures = @ \cup {Future(request.id)},
              !.future_to_request = @ \cup {request},
              !.submitted = Append(@, [id |-> request.id, key |-> key_of(request)])]

\* process_callback(request, response) is entered: the continuation is called
\* when the request has one; back is where the loop goes on afterwards
process_callback(c, request, response, back) ==
    [c EXCEPT !.pc = "callback",
              !.cont = [request |-> request, response |-> response, back |-> back,
                        items |-> IF request.callback # None
                                  THEN c.site[request.url] ELSE <<>>],
              !.active = IF request.callback # None
                         THEN @ \cup {[id |-> request.id, thread |-> MainThread]}
                         ELSE @,
              !.invoked = IF request.callback # None
                          THEN Append(@, [id |-> request.id, response |-> response])
                          ELSE @]

NoCont == [back |-> "none"]

\* an item of the continuation is lost
yield_nothing(c, next_request) == c

\* process_callback: `yield next_request`, the item goes to the caller of
\* threaded
yield_on(c, next_request) == [c EXCEPT !.results = Append(@, next_request.value)]

\* download.threaded(requests, max_workers, max_queue, filter_duplicates) is
\* called and its generator started: the seeds are filtered and the executor
\* is made.  download.py has no filter_duplicates.
Threaded(seeds, site, max_workers, max_queue, filter_duplicates) ==
    /\ crawl.pc = "none"
    /\ impl = "legacy" => ~filter_duplicates
    /\ LET requests == [i \in 1..Len(seeds) |->
                           RequestObject(i, seeds[i].url, seeds[i].callback)]
           kept == IF filter_duplicates
                   THEN filter_requests(requests, HashDict, <<>>)
                   ELSE [requests |-> requests, seen |-> HashDict]
       IN  crawl' = [pc |-> "loop", actor |-> MainThread, error |-> None,
                     filter_duplicates |-> filter_duplicates,
                     max_workers |-> max_workers, max_queue |-> max_queue,
                     site |-> site, seeds |-> requests,
                     requests |-> kept.requests, seen |-> kept.seen,
                     cur_requests |-> <<>>, future_to_request |-> {}, futures |-> {},
                     cont |-> NoCont, active |-> {}, results |-> <<>>,
                     next_id |-> Len(seeds) + 1,
                     admitted |-> {kept.requests[i].id : i \in 1..Len(kept.requests)},
                     created |-> requests,
                     popped |-> <<>>, submitted |-> <<>>, served |-> <<>>,
                     invoked |-> <<>>, completed |-> <<>>]
    /\ UNCHANGED <<now, expires, config, probe, keyed, pool, ledger, downloadVars>>

\* `while requests:` is true: up to max_queue requests are popped into
\* cur_requests and future_to_request starts empty
Round ==
    /\ crawl.pc = "loop"
    /\ crawl.requests # <<>>
    /\ LET cur_requests == pop_n(crawl.requests, crawl.max_queue) IN
       crawl' = [crawl EXCEPT
                    !.pc = "submit", !.actor = MainThread,
                    !.cur_requests = cur_requests,
                    !.requests = SubSeq(@, 1, Len(@) - Len(cur_requests)),
                    !.future_to_request = {},
                    !.completed = <<>>,
                    !.popped = @ \o [i \in 1..Len(cur_requests) |-> cur_requests[i].id]]
    /\ UNCHANGED <<now, expires, config, probe, keyed, pool, ledger, downloadVars>>

\* `while requests:` is false: the executor is shut down and the generator
\* is exhausted
Exhausted ==
    /\ crawl.pc = "loop"
    /\ crawl.requests = <<>>
    /\ crawl' = [crawl EXCEPT !.pc = "done", !.actor = MainThread]
    /\ UNCHANGED <<now, expires, config, probe, keyed, pool, ledger, downloadVars>>

\* the body of `for request in cur_requests:` for the next request: a request
\* with no fresh cache entry is submitted.  With an entry, ws/download.py calls
\* self._should_retry(response) without its two other arguments, a TypeError
\* that ends the generator; download.py serves the request from the cache
\* unless the entry is a failure to retry.
NextRequest ==
    /\ crawl.pc = "submit"
    /\ crawl.cur_requests # <<>>
    /\ LET request == Head(crawl.cur_requests)
           c == [crawl EXCEPT !.cur_requests = Tail(@), !.actor = MainThread]
           item == __getitem__(config, key_of(request))
       IN  crawl' =
             IF ~item.found THEN submit(c, request)
             ELSE IF impl = "ws" THEN [c EXCEPT !.pc = "raised", !.error = "TypeError"]
             ELSE IF ~isResponse(item.value)
                  THEN [c EXCEPT !.pc = "raised", !.error = "AttributeError"]
             ELSE IF legacy_should_retry(item.value, 0) THEN submit(c, request)
             ELSE process_callback([c EXCEPT !.served = Append(@, request.id)],
                                   request, item.value, "submit")
    /\ UNCHANGED <<now, expires, config, probe, keyed, pool, ledger, downloadVars>>

\* cur_requests is through: the loop turns to as_completed(future_to_request)
SubmitEnd ==
    /\ crawl.pc = "submit"
    /\ crawl.cur_requests = <<>>
    /\ crawl' = [crawl EXCEPT !.pc = "collect", !.actor = MainThread]
    /\ UNCHANGED <<now, expires, config, probe, keyed, pool, ledger, downloadVars>>

\* as_completed hands over a finished future: a task that raised is printed
\* and dropped; a Response is written to the cache and process_callback entered
Completed(request) ==
    /\ crawl.pc = "collect"
    /\ request \in crawl.future_to_request
    /\ \E future \in crawl.futures :
          /\ future.id = request.id
          /\ future.state \in {"done", "raised"}
          /\ IF future.state = "raised"
             THEN /\ crawl' = [crawl EXCEPT !.future_to_request = @ \ {request},
                                            !.actor = MainThread]
                  /\ UNCHANGED config
             ELSE /\ config' = __setitem__(config, key_of(request), future.response)
                  /\ crawl' = process_callback([crawl EXCEPT !.actor = MainThread],
                                               request, future.response, "collect")
    /\ UNCHANGED <<now, expires, probe, keyed, pool, ledger, downloadVars>>

\* every future of the round was handed over: back to `while requests:`
CollectEnd ==
    /\ crawl.pc = "collect"
    /\ crawl.future_to_request = {}
    /\ crawl' = [crawl EXCEPT !.pc = "loop", !.actor = MainThread, !.completed = <<>>]
    /\ UNCHANGED <<now, expires, config, probe, keyed, pool, ledger, downloadVars>>

\* the continuation yields its next item to process_callback: a Request is
\* admitted or dropped, anything else is yielded on to the caller.  No
\* try encloses process_callback: an exception of the continuation leaves the
\* generator.
CallbackItem ==
    /\ crawl.pc = "callback"
    /\ crawl.cont.items # <<>>
    /\ LET item == Head(crawl.cont.items)
           c == [crawl EXCEPT !.cont.items = Tail(@), !.actor = MainThread]
       IN  IF item.t = "Request"
           THEN /\ crawl.next_id <= MaxRequests
                /\ crawl' = admit(c, RequestObject(crawl.next_id, item.url, "parse"))
           ELSE IF item.t = "raise"
                THEN crawl' = [c EXCEPT !.pc = "raised", !.error = "Exception"]
                ELSE crawl' = yield_on(c, item)
    /\ UNCHANGED <<now, expires, config, probe, keyed, pool, ledger, downloadVars>>

\* the continuation is through; after a fetched request the loop runs
\* `del future_to_request[future]`
CallbackEnd ==
    /\ crawl.pc = "callback"
    /\ crawl.cont.items = <<>>
    /\ crawl' = [crawl EXCEPT
                    !.pc = crawl.cont.back, !.actor = MainThread,
                    !.cont = NoCont,
                    !.active = {a \in @ : a.id # crawl.cont.request.id},
                    !.future_to_request = IF crawl.cont.back = "collect"
                                          THEN @ \ {crawl.cont.request} ELSE @]
    /\ UNCHANGED <<now, expires, config, probe, keyed, pool, ledger, downloadVars>>

\* the futures that run on a worker thread
running(c) == {future \in c.futures : future.state = "running"}

\* the queued future that was submitted first
first_queued(c, id) ==
    \E i \in 1..Len(c.submitted) :
        /\ c.submitted[i].id = id
        /\ \A j \in 1..(i - 1) :
              \A future \in c.futures :
                  future.id = c.submitted[j].id => future.state # "queued"

\* a worker that is done with a fetch runs the continuation itself
worker_sets_and_calls_back(c, future) ==
    [c EXCEPT !.futures = {old \in @ : old.id # future.id} \cup {future},
              !.actor = "Worker",
              !.completed = IF future.state \in {"done", "raised"}
                            THEN Append(@, future.id) ELSE @,
              !.active = IF future.state = "done"
                         THEN @ \cup {[id |-> future.id, thread |-> "Worker"]} ELSE @]

\* what a worker thread changes: the state of the Future it runs; completed
\* lists the fetches of the round in the order in which they finish
worker_sets(c, future) ==
    [c EXCEPT !.futures = {old \in @ : old.id # future.id} \cup {future},
              !.actor = "Worker",
              !.completed = IF future.state \in {"done", "raised"}
                            THEN Append(@, future.id) ELSE @]

\* a worker thread of the executor takes the next queued fetch
WorkerStart(id) ==
    /\ crawl.pc # "none"
    /\ Cardinality(running(crawl)) < crawl.max_workers
    /\ first_queued(crawl, id)
    /\ \E future \in crawl.futures :
          /\ future.id = id /\ future.state = "queued"
          /\ crawl' = worker_sets(crawl, [future EXCEPT !.state = "running"])
    /\ UNCHANGED <<now, expires, config, probe, keyed, pool, ledger, downloadVars>>

\* what an attempt of a submitted fetch can come to: a reply, an exception of
\* the session, or an exception that leaves Download.get
FetchOutcomes ==
    {o \in Outcomes : o.kind = "exception" \/ (o.status = 200 /\ ~o.redirected)}
    \cup {[kind |-> "raise"]}

\* one attempt of self.get(url, headers, data, read_cache=False,
\* write_cache=False) on a worker thread: proxy, Throttle, network call, and
\* on to the next attempt or to the end of the task
WorkerAttempt(id, outcome) ==
    /\ crawl.pc # "none"
    /\ (impl = "ws" /\ outcome.kind = "exception")
          => count(proxy_errors, get_proxy(proxies).proxy) < MaxErrors
    /\ \E future \in crawl.futures :
          /\ future.id = id /\ future.state = "running"
          /\ LET got == acquire_proxy(TRUE)
                 response == IF outcome.kind = "http"
                             THEN http_response(outcome)
                             ELSE error_response([text |-> "timed out"])
                 break == outcome.kind = "http"
                            /\ ~should_retry(response, future.num_failures, DefaultMaxRetries)
                 again == ~break /\ in_range(future.num_failures + 1, DefaultMaxRetries)
             IN  /\ proxies' = got.proxies
                 /\ last_time' = assign(last_time, got.proxy,
                                        next_time(got.proxy, throttle_delay(Unset)))
                 /\ IF outcome.kind = "raise"
                    THEN /\ crawl' = worker_sets(crawl, [future EXCEPT !.state = "raised"])
                         /\ UNCHANGED proxy_errors
                    ELSE /\ proxy_errors' =
                              IF impl # "ws" THEN proxy_errors
                              ELSE IF outcome.kind = "exception"
                                   THEN assign(proxy_errors, got.proxy,
                                               count(proxy_errors, got.proxy) + 1)
                                   ELSE IF break THEN proxy_errors
                                        ELSE assign(proxy_errors, got.proxy, 0)
                         /\ crawl' = worker_sets(crawl,
                               IF again
                               THEN [future EXCEPT !.num_failures = @ + 1]
                               ELSE [future EXCEPT !.state = "done",
                                                   !.response = response])
    /\ UNCHANGED <<now, expires, config, probe, keyed, pool, ledger,
                   impl, target, delay, call>>

(***************************************************************************)
(* A run of threaded: seeds, the continuations of a site, and a cache that *)
(* an earlier run may have filled.                                         *)
(***************************************************************************)
\* the continuation "parse" of each url: a, b and c yield one result each;
\* a and b link to each other; a and b both link to c
LeafSite == [u \in {"a", "b", "c"} |-> <<YieldItem(u)>>]
CycleSite ==
    [u \in {"a", "b", "c"} |->
        IF u = "a" THEN <<YieldRequest("b"), YieldItem(u)>>
        ELSE IF u = "b" THEN <<YieldRequest("a"), YieldItem(u)>>
        ELSE <<YieldItem(u)>>]
FanInSite ==
    [u \in {"a", "b", "c"} |->
        IF u = "c" THEN <<YieldItem(u)>> ELSE <<YieldRequest("c")>>]
CrawlSites == {LeafSite, CycleSite, FanInSite}
\* the continuation of a yields a result and raises
RaisingSite ==
    [u \in {"a", "b", "c"} |->
        IF u = "a" THEN <<YieldItem(u), Raise>> ELSE <<YieldItem(u)>>]
RaisingSites == {RaisingSite}

Seed(url) == [url |-> url, callback |-> "parse"]
CrawlSeeds == {<<Seed("a")>>, <<Seed("a"), Seed("b")>>, <<Seed("a"), Seed("a")>>}

\* the cache file at the start: new, or with the Response of an earlier run
CrawlCaches == {{}, {Row("a", serialize(Response("html", 200, "reason")),
                         serialize(EmptyMeta), 0)}}

InitCrawl ==
    /\ now = 0
    /\ expires = Unset
    /\ config \in CrawlCaches
    /\ probe = NoProbe
    /\ keyed = NoKeyed
    /\ ledger = {}
    /\ crawl = NoCrawl
    /\ pool = NoPool
    /\ impl \in {"ws", "legacy"}
    /\ target = [url |-> "u", data |-> NoData]
    /\ delay = 0
    /\ proxies = <<>>
    /\ proxy_errors = <<>>
    /\ last_time = <<>>
    /\ call = IdleCall

\* the requests in future_to_request and the futures of the run, if any
InFlight == IF crawl.pc = "none" THEN {} ELSE crawl.future_to_request
Futures == IF crawl.pc = "none" THEN {} ELSE crawl.futures

NextCrawl ==
    \/ \E seeds \in CrawlSeeds, site \in CrawlSites, max_workers \in 1..MaxWorkers,
          max_queue \in 1..MaxQueue, filter_duplicates \in BOOLEAN :
            Threaded(seeds, site, max_workers, max_queue, filter_duplicates)
    \/ Round
    \/ Exhausted
    \/ NextRequest
    \/ SubmitEnd
    \/ \E request \in InFlight : Completed(request)
    \/ CollectEnd
    \/ CallbackItem
    \/ CallbackEnd
    \/ \E future \in Futures : WorkerStart(future.id)
    \/ \E future \in Futures, outcome \in FetchOutcomes :
          WorkerAttempt(future.id, outcome)

SpecCrawl == InitCrawl /\ [][NextCrawl]_vars

\* the runs over a site with a continuation that raises
NextRaising ==
    \/ \E seeds \in CrawlSeeds, site \in RaisingSites, max_workers \in 1..MaxWorkers,
          max_queue \in 1..MaxQueue, filter_duplicates \in BOOLEAN :
            Threaded(seeds, site, max_workers, max_queue, filter_duplicates)
    \/ Round
    \/ Exhausted
    \/ NextRequest
    \/ SubmitEnd
    \/ \E request \in InFlight : Completed(request)
    \/ CollectEnd
    \/ CallbackItem
    \/ CallbackEnd
    \/ \E future \in Futures : WorkerStart(future.id)
    \/ \E future \in Futures, outcome \in FetchOutcomes :
          WorkerAttempt(future.id, outcome)

SpecRaising == InitCrawl /\ [][NextRaising]_vars

(***************************************************************************)
(* Properties of Download.threaded                                         *)
(***************************************************************************)
\* the run is over: the generator is exhausted, or an exception ended it
Ended == crawl.pc \in {"done", "raised"}

\* how often x occurs in the list
occurrences(list, x) == Cardinality({i \in 1..Len(list) : list[i] = x})

\* C16: with filter_duplicates no two fetches of one run are submitted for the
\* same request key, whatever the seeds are and however many continuations
\* yield a Request with that key.
C16_NoTwoFetchesForOneKey ==
    (crawl.pc # "none" /\ crawl.filter_duplicates) =>
        \A i \in 1..Len(crawl.submitted), j \in 1..Len(crawl.submitted) :
            crawl.submitted[i].key = crawl.submitted[j].key => i = j

\* the seeds a and b both link to c, and the run fetched a, b and c once each
C16_Witness ==
    /\ crawl.pc = "done" /\ crawl.filter_duplicates
    /\ crawl.site = FanInSite /\ Len(crawl.seeds) = 2
    /\ Len(crawl.invoked) = 3 /\ Len(crawl.submitted) = 3
    /\ Cardinality({i \in 1..3 : crawl.submitted[i].key = "c"}) = 1

\* the seeds that the run keeps: all of them, or with filter_duplicates the
\* first of each key
KeptSeeds ==
    {i \in 1..Len(crawl.seeds) :
        crawl.filter_duplicates =>
            \A j \in 1..(i - 1) : key_of(crawl.seeds[j]) # key_of(crawl.seeds[i])}

\* C17 (as claimed): with N seeds whose continuations yield no Request and one
\* result each, the sequence is exhausted after exactly the N results; with
\* filter_duplicates only the first seed of each key contributes one.
C17_LeafSeedsYieldTheirResults ==
    ( /\ crawl.pc # "none" /\ crawl.site = LeafSite
      /\ \A future \in crawl.futures : future.state # "raised" )
    => /\ crawl.pc # "raised"
       /\ Len(crawl.results) <= Cardinality(KeptSeeds)
       /\ crawl.pc = "done" =>
             /\ Len(crawl.results) = Cardinality(KeptSeeds)
             /\ {crawl.invoked[i].id : i \in 1..Len(crawl.invoked)} = KeptSeeds

\* C17, what the code does keep: the same for the runs that no exception of the
\* loop itself ends.
C17_UnlessTheLoopRaises ==
    ( /\ crawl.pc \notin {"none", "raised"} /\ crawl.site = LeafSite
      /\ \A future \in crawl.futures : future.state # "raised" )
    => /\ Len(crawl.results) <= Cardinality(KeptSeeds)
       /\ crawl.pc = "done" =>
             /\ Len(crawl.results) = Cardinality(KeptSeeds)
             /\ {crawl.invoked[i].id : i \in 1..Len(crawl.invoked)} = KeptSeeds

\* C18 (as claimed): the loop ends exactly when the pending list is empty and
\* no submitted fetch is in flight.
C18_EndsWhenNothingIsLeft ==
    Ended =>
        /\ crawl.requests = <<>> /\ crawl.cur_requests = <<>>
        /\ crawl.future_to_request = {}
        /\ \A future \in crawl.futures : future.state \in {"done", "raised"}

\* C18, what the code does keep: a run that the generator ends by exhaustion
\* leaves nothing pending and nothing in flight.
C18_ExhaustedWhenNothingIsLeft ==
    crawl.pc = "done" =>
        /\ crawl.requests = <<>> /\ crawl.cur_requests = <<>>
        /\ crawl.future_to_request = {}
        /\ \A future \in crawl.futures : future.state \in {"done", "raised"}

\* the caller keeps taking items and the threads keep running
FairSpecCrawl == SpecCrawl /\ WF_vars(NextCrawl)

\* C18, what the code does keep of termination: with filter_duplicates every
\* run ends, by exhaustion or by the exception of the loop, also when the
\* continuations link to each other in a cycle.
C18_EveryFilteredRunEnds ==
    (crawl.pc # "none" /\ crawl.filter_duplicates) ~> Ended

\* C19 (as claimed): every request admitted to the pending list is removed from
\* it once, is served from the cache or submitted as one fetch, and, unless its
\* fetch task raised, has its continuation invoked once with the Request and
\* the Response obtained for it; none is lost and none is processed twice.
C19_AdmittedProcessedExactlyOnce ==
    crawl.pc # "none" =>
        /\ \A id \in crawl.admitted :
              /\ occurrences(crawl.popped, id) <= 1
              /\ occurrences(crawl.served, id)
                    + Cardinality({i \in 1..Len(crawl.submitted) : crawl.submitted[i].id = id})
                    <= 1
              /\ Cardinality({i \in 1..Len(crawl.invoked) : crawl.invoked[i].id = id}) <= 1
        /\ Ended =>
              \A id \in crawl.admitted :
                  /\ occurrences(crawl.popped, id) = 1
                  /\ occurrences(crawl.served, id)
                        + Cardinality({i \in 1..Len(crawl.submitted) :
                                          crawl.submitted[i].id = id})
                        = 1
                  /\ \A future \in crawl.futures :
                        (future.id = id /\ future.state # "raised")
                        => /\ future.state = "done"
                           /\ \E i \in 1..Len(crawl.invoked) :
                                 crawl.invoked[i] = [id |-> id, response |-> future.response]

\* C19, what the code does keep: the same for the runs that no exception of the
\* loop itself ends.
C19_UnlessTheLoopRaises ==
    crawl.pc \notin {"none", "raised"} =>
        /\ \A id \in crawl.admitted :
              /\ occurrences(crawl.popped, id) <= 1
              /\ occurrences(crawl.served, id)
                    + Cardinality({i \in 1..Len(crawl.submitted) : crawl.submitted[i].id = id})
                    <= 1
              /\ Cardinality({i \in 1..Len(crawl.invoked) : crawl.invoked[i].id = id}) <= 1
        /\ crawl.pc = "done" =>
              \A id \in crawl.admitted :
                  /\ occurrences(crawl.popped, id) = 1
                  /\ occurrences(crawl.served, id)
                        + Cardinality({i \in 1..Len(crawl.submitted) :
                                          crawl.submitted[i].id = id})
                        = 1
                  /\ (\E i \in 1..Len(crawl.served) : crawl.served[i] = id)
                        => \E i \in 1..Len(crawl.invoked) : crawl.invoked[i].id = id
                  /\ \A future \in crawl.futures :
                        (future.id = id /\ future.state # "raised")
                        => /\ future.state = "done"
                           /\ \E i \in 1..Len(crawl.invoked) :
                                 crawl.invoked[i] = [id |-> id, response |-> future.response]

\* C20: no two continuations run at the same time and each runs on the thread
\* of the loop; the pending list, the seen set and the in-flight map are
\* changed only by steps of that thread; the worker threads run at most
\* max_workers fetches at a time.
C20_ContinuationsOnTheLoopThread ==
    [][ /\ Cardinality(crawl'.active) <= 1
        /\ \A a \in crawl'.active : a.thread = MainThread
        /\ Cardinality(running(crawl')) <= crawl'.max_workers
        /\ ( /\ crawl.pc # "none"
             /\ \/ crawl'.requests # crawl.requests
                \/ crawl'.cur_requests # crawl.cur_requests
                \/ crawl'.seen # crawl.seen
                \/ crawl'.future_to_request # crawl.future_to_request
                \/ crawl'.active # crawl.active
                \/ crawl'.results # crawl.results )
           => crawl'.actor = MainThread ]_vars

\* a continuation runs on the loop's thread while a worker runs a fetch
C20_Witness ==
    /\ crawl.pc = "callback" /\ crawl.active # {} /\ running(crawl) # {}
    /\ crawl.actor = "Worker"

\* C21 (as claimed): a continuation that raises does not end the run: the
\* failure is skipped, the run goes on to exhaustion, nothing stays pending or
\* in flight, and every other fetch that came back has its continuation invoked.
C21_RaisingContinuationIsSkipped ==
    (Ended /\ crawl.error = "Exception") =>
        /\ crawl.pc = "done"
        /\ crawl.requests = <<>> /\ crawl.cur_requests = <<>>
        /\ \A future \in crawl.futures :
              future.state = "done" =>
                  \E i \in 1..Len(crawl.invoked) : crawl.invoked[i].id = future.id

\* the request key of the request with this id
key_of_id(id) == key_of(crawl.created[id])

\* the fetch ended with a transport error in its last attempt
failed(future) == future.state = "done" /\ future.response.status_code = 500

\* C22 (as claimed): no network-level problem keeps a request from being
\* processed: a fetch whose attempts all fail reaches its continuation as a
\* Response with status 500, a fetch task that raises is skipped with neither
\* a continuation nor a cache entry, and in both cases every other admitted
\* request is still taken from the pending list.
C22_NetworkProblemsNeverEndTheRun ==
    Ended =>
        /\ \A future \in crawl.futures :
              failed(future) =>
                  \E i \in 1..Len(crawl.invoked) :
                      crawl.invoked[i] = [id |-> future.id, response |-> future.response]
        /\ \A future \in crawl.futures :
              future.state = "raised" =>
                  /\ \A i \in 1..Len(crawl.invoked) : crawl.invoked[i].id # future.id
                  /\ crawl.filter_duplicates => select(config, key_of_id(future.id)) = {}
        /\ (\E future \in crawl.futures : failed(future) \/ future.state = "raised")
              => \A id \in crawl.admitted : occurrences(crawl.popped, id) = 1

\* C22, what the code does keep: the same for the runs that no exception of the
\* loop itself ends.
C22_UnlessTheLoopRaises ==
    crawl.pc = "done" =>
        /\ \A future \in crawl.futures :
              failed(future) =>
                  \E i \in 1..Len(crawl.invoked) :
                      crawl.invoked[i] = [id |-> future.id, response |-> future.response]
        /\ \A future \in crawl.futures :
              future.state = "raised" =>
                  /\ \A i \in 1..Len(crawl.invoked) : crawl.invoked[i].id # future.id
                  /\ crawl.filter_duplicates => select(config, key_of_id(future.id)) = {}
        /\ (\E future \in crawl.futures : failed(future) \/ future.state = "raised")
              => \A id \in crawl.admitted : occurrences(crawl.popped, id) = 1

\* the results among the items of a continuation, in the order they are yielded
RECURSIVE values(_)
values(items) ==
    IF items = <<>> THEN <<>>
    ELSE IF Head(items).t = "item" THEN <<Head(items).value>> \o values(Tail(items))
    ELSE values(Tail(items))

\* what the continuation invoked as the i-th has yielded so far: all its items,
\* or, while it runs, the items that process_callback has taken
taken(c, i) ==
    LET items == c.site[c.created[c.invoked[i].id].url] IN
    IF i = Len(c.invoked) /\ c.pc = "callback" /\ c.cont.request.id = c.invoked[i].id
    THEN SubSeq(items, 1, Len(items) - Len(c.cont.items))
    ELSE items

\* the results of the first n continuations invoked
RECURSIVE yielded(_, _)
yielded(c, n) ==
    IF n = 0 THEN <<>> ELSE yielded(c, n - 1) \o values(taken(c, n))

\* a step of process_callback that takes a Request from the continuation
TakesRequest ==
    /\ crawl.pc = "callback" /\ crawl'.pc = "callback"
    /\ crawl.cont.items # <<>> /\ crawl'.cont.items = Tail(crawl.cont.items)
    /\ Head(crawl.cont.items).t = "Request"

\* C26: the sequence produced by threaded consists of exactly the non-Request
\* items yielded by the continuations, each once and in the order yielded; a
\* yielded Request is never produced: it is appended to the pending list, or
\* dropped when filter_duplicates is set and its key was seen.
C26_ResultsAreTheYieldedItems ==
    [][ /\ crawl'.results = yielded(crawl', Len(crawl'.invoked))
        /\ TakesRequest =>
              LET key == get_key(Request(Head(crawl.cont.items).url, None, NoData, "parse")) IN
              /\ crawl'.results = crawl.results
              /\ IF crawl.filter_duplicates /\ key \in crawl.seen
                 THEN crawl'.requests = crawl.requests
                 ELSE /\ Len(crawl'.requests) = Len(crawl.requests) + 1
                      /\ SubSeq(crawl'.requests, 1, Len(crawl.requests)) = crawl.requests
                      /\ crawl'.requests[Len(crawl'.requests)].url
                            = Head(crawl.cont.items).url ]_vars

\* a continuation yielded a Request and then a result: the Request was dropped
\* as seen, the result was produced, and the run went on to a second result
C26_Witness ==
    /\ crawl.pc = "done" /\ crawl.filter_duplicates /\ crawl.site = CycleSite
    /\ crawl.results = <<"a", "b">>
    /\ Len(crawl.invoked) = 2 /\ crawl.next_id = 3

\* a step of the loop that takes the next request of cur_requests
TakesNext ==
    /\ crawl.pc = "submit" /\ crawl.cur_requests # <<>>
    /\ crawl'.cur_requests = Tail(crawl.cur_requests)

\* the fresh entry that the cache holds for the request, if it needs no retry
fresh_entry(request) ==
    LET item == __getitem__(config, key_of(request)) IN
    IF item.found /\ isResponse(item.value)
          /\ ~should_retry(item.value, 0, DefaultMaxRetries)
    THEN item ELSE KeyError

\* C27 (as claimed): a pending request with a fresh cache entry that needs no
\* retry is not submitted as a fetch: its continuation is invoked at once with
\* the cached Response.
C27_FreshEntryServedInline ==
    [][ (TakesNext /\ fresh_entry(Head(crawl.cur_requests)).found) =>
            LET request == Head(crawl.cur_requests)
                response == fresh_entry(request).value IN
            /\ crawl'.pc = "callback"
            /\ crawl'.cont.request = request /\ crawl'.cont.response = response
            /\ crawl'.submitted = crawl.submitted /\ crawl'.futures = crawl.futures
            /\ crawl'.invoked
                  = Append(crawl.invoked, [id |-> request.id, response |-> response])
            /\ config' = config ]_vars

\* C27, what the code does keep: download.py serves the request from the cache.
C27_LegacyServesInline ==
    [][ (impl = "legacy" /\ TakesNext /\ fresh_entry(Head(crawl.cur_requests)).found) =>
            LET request == Head(crawl.cur_requests)
                response == fresh_entry(request).value IN
            /\ crawl'.pc = "callback"
            /\ crawl'.cont.request = request /\ crawl'.cont.response = response
            /\ crawl'.submitted = crawl.submitted /\ crawl'.futures = crawl.futures
            /\ crawl'.invoked
                  = Append(crawl.invoked, [id |-> request.id, response |-> response])
            /\ config' = config ]_vars

\* the Responses that the fetches for this key came back with
fetched(c, key) ==
    {future.response : future \in
        {f \in c.futures : f.state = "done" /\ key_of(c.created[f.id]) = key}}

\* C28 (as claimed): the Response of every fetch that completes is written to
\* the cache under the key of its request, by the thread of the loop and before
\* the continuation of the request is invoked, so that at the end of the run
\* the cache holds an entry for every fetch that came back; the worker threads
\* do not write to the cache.
C28_FetchedResponseCachedFirst ==
    [][ /\ (crawl.pc = "collect" /\ crawl'.pc = "callback")
              => /\ crawl'.actor = MainThread
                 /\ Holds(config', key_of(crawl'.cont.request), crawl'.cont.response)
        /\ (crawl.pc # "none" /\ crawl'.actor = "Worker") => config' = config
        /\ crawl'.pc \in {"done", "raised"} =>
              \A future \in crawl'.futures :
                  future.state = "done" =>
                      \E response \in fetched(crawl', key_of(crawl'.created[future.id])) :
                          Holds(config', key_of(crawl'.created[future.id]), response) ]_vars

\* C28, what the code does keep: the same for the runs that no exception of the
\* loop itself ends.
C28_UnlessTheLoopRaises ==
    [][ /\ (crawl.pc = "collect" /\ crawl'.pc = "callback")
              => /\ crawl'.actor = MainThread
                 /\ Holds(config', key_of(crawl'.cont.request), crawl'.cont.response)
        /\ (crawl.pc # "none" /\ crawl'.actor = "Worker") => config' = config
        /\ crawl'.pc = "done" =>
              \A future \in crawl'.futures :
                  future.state = "done" =>
                      \E response \in fetched(crawl', key_of(crawl'.created[future.id])) :
                          Holds(config', key_of(crawl'.created[future.id]), response) ]_vars

\* the loop has run the continuation of request id to its end
called_back(c, id) ==
    /\ \E i \in 1..Len(c.invoked) : c.invoked[i].id = id
    /\ ~(c.cont.back # "none" /\ c.cont.request.id = id)

live(c) ==
    {c.requests[i] : i \in 1..Len(c.requests)}
    \cup {c.cur_requests[i] : i \in 1..Len(c.cur_requests)}
    \cup c.future_to_request

\* C35: with filter_duplicates the key of every request that is pending, in
\* flight or was taken up by a round is in seen at every point of the run, seen
\* never loses a key, and no two requests that are pending or in flight have
\* the same key.
C35_SeenCoversEveryRequest ==
    [][ (crawl'.pc # "none" /\ crawl'.filter_duplicates) =>
          LET c == crawl' IN
          /\ \A request \in live(c) : key_of(request) \in c.seen
          /\ \A i \in 1..Len(c.popped) : key_of(c.created[c.popped[i]]) \in c.seen
          /\ c.cont.back # "none" => key_of(c.cont.request) \in c.seen
          /\ \A request \in live(c), other \in live(c) :
                key_of(request) = key_of(other) => request = other
          /\ Cardinality(live(c))
                = Len(c.requests) + Len(c.cur_requests) + Cardinality(c.future_to_request)
          /\ crawl.pc # "none" => crawl.seen \subseteq c.seen ]_vars

\* a and b link to each other: the run from a took up a and b, and the links
\* back were dropped
C35_Witness ==
    /\ crawl.pc = "done" /\ crawl.filter_duplicates
    /\ crawl.site = CycleSite /\ Len(crawl.seeds) = 1
    /\ crawl.seen = {"a", "b"} /\ Len(crawl.popped) = 2
    /\ Len(crawl.invoked) = 2

\* where x stands in the list
position(list, x) == CHOOSE i \in 1..Len(list) : list[i] = x

\* the fetch of request id has a Response
has_response(c, id) == \E future \in c.futures : future.id = id /\ future.state = "done"

\* a Request that a continuation yields during a round goes to the pending
\* list and not into the round; the request that is submitted is one the round
\* took from the pending list, and every fetch of an earlier round has
\* completed and its completion was handled
Barrier ==
    /\ (crawl.pc # "none" /\ Len(crawl'.created) > Len(crawl.created)) =>
          /\ crawl'.requests = Append(crawl.requests, crawl'.created[Len(crawl'.created)])
          /\ crawl'.cur_requests = crawl.cur_requests
          /\ crawl'.future_to_request = crawl.future_to_request
          /\ crawl'.submitted = crawl.submitted
    /\ (crawl.pc # "none" /\ Len(crawl'.submitted) > Len(crawl.submitted)) =>
          /\ crawl.pc = "submit" /\ crawl.cur_requests # <<>>
          /\ Head(crawl.cur_requests).id = crawl'.submitted[Len(crawl'.submitted)].id
          /\ \E i \in 1..Len(crawl.popped) :
                crawl.popped[i] = crawl'.submitted[Len(crawl'.submitted)].id
          /\ \A future \in crawl.futures :
                \/ \E request \in crawl.future_to_request : request.id = future.id
                \/ /\ future.state \in {"done", "raised"}
                   /\ future.state = "done" => called_back(crawl, future.id)

\* in a round the continuations of the requests served from the cache run
\* before the continuation of any fetched request
ServedFirst ==
    /\ (crawl.pc = "submit" /\ crawl'.pc = "callback") =>
          /\ \A request \in crawl'.future_to_request :
                ~\E i \in 1..Len(crawl'.invoked) : crawl'.invoked[i].id = request.id
          /\ \A i \in 1..Len(crawl'.completed) :
                \E request \in crawl'.future_to_request : request.id = crawl'.completed[i]
    /\ (crawl.pc = "collect" /\ crawl'.pc = "callback") => crawl.cur_requests = <<>>

\* the continuation of a fetched request runs when its own fetch has completed
\* with a Response, and is given that Response
AfterOwnFetch ==
    (crawl.pc = "collect" /\ crawl'.pc = "callback") =>
        /\ crawl'.cont.request \in crawl.future_to_request
        /\ \E i \in 1..Len(crawl.completed) : crawl.completed[i] = crawl'.cont.request.id
        /\ \E future \in crawl.futures :
              /\ future.id = crawl'.cont.request.id /\ future.state = "done"
              /\ future.response = crawl'.cont.response

\* the continuation that starts is that of the fetch which completed first
\* among the fetches whose continuation has not run
InOrderOfCompletion ==
    (crawl.pc = "collect" /\ crawl'.pc = "callback") =>
        \A request \in crawl.future_to_request :
            has_response(crawl, request.id) =>
                position(crawl.completed, crawl'.cont.request.id)
                    <= position(crawl.completed, request.id)

MaxCalls == 3

PoolThreads == {"T1", "T2"}

\* a thread between two attempts of Download.get
IdleThread == [pc |-> "idle", proxy |-> None, new |-> <<>>, next_time |-> 0]

\* what get_proxy returns: None, the proxy, or in download.py the mapping of
\* the proxy that requests takes
mapping(proxy) ==
    IF proxy = None THEN [cls |-> "NoneType"]
    ELSE IF impl = "legacy" THEN [cls |-> "dict", http |-> proxy, https |-> proxy]
    ELSE [cls |-> "str", value |-> proxy]

\* get_proxy returns to thread t
hand(p, t, proxy) ==
    [p EXCEPT !.handed = Append(@, [thread |-> t, proxy |-> mapping(proxy)])]

\* the proxy is put back at the end it was taken from
put_back(proxy, list) == list \o <<proxy>>

\* get_proxy: [proxy] + self.proxies
put_first(proxy, list) == <<proxy>> \o list

\* get_proxy: `if self.proxies:`; without proxies the call returns None
ProxyTest(t) ==
    /\ pool.pc = "run"
    /\ pool.threads[t].pc = "idle"
    /\ pool.calls < MaxCalls
    /\ pool' = IF proxies # <<>>
               THEN [pool EXCEPT !.calls = @ + 1, !.threads[t].pc = "pop"]
               ELSE hand([pool EXCEPT !.calls = @ + 1,
                                      !.threads[t].pc = "throttle",
                                      !.threads[t].proxy = None], t, None)
    /\ UNCHANGED <<now, expires, config, probe, keyed, ledger, crawl,
                   impl, target, delay, proxies, proxy_errors, last_time, call>>

\* get_proxy: proxy = self.proxies.pop(); IndexError when another thread has
\* emptied the list since the test
ProxyPop(t) ==
    /\ pool.pc = "run"
    /\ pool.threads[t].pc = "pop"
    /\ IF proxies = <<>>
       THEN /\ pool' = [pool EXCEPT !.threads[t].pc = "raised"]
            /\ UNCHANGED proxies
       ELSE /\ pool' = [pool EXCEPT !.threads[t].pc = "concat",
                                    !.threads[t].proxy = proxies[Len(proxies)]]
            /\ proxies' = SubSeq(proxies, 1, Len(proxies) - 1)
    /\ UNCHANGED <<now, expires, config, probe, keyed, ledger, crawl,
                   impl, target, delay, proxy_errors, last_time, call>>

\* get_proxy: the new list [proxy] + self.proxies is built
ProxyConcat(t) ==
    /\ pool.pc = "run"
    /\ pool.threads[t].pc = "concat"
    /\ pool' = [pool EXCEPT !.threads[t].pc = "assign",
                            !.threads[t].new = put_first(pool.threads[t].proxy, proxies)]
    /\ UNCHANGED <<now, expires, config, probe, keyed, ledger, crawl,
                   impl, target, delay, proxies, proxy_errors, last_time, call>>

\* get_proxy: self.proxies is bound to the new list and the proxy returned
ProxyAssign(t) ==
    /\ pool.pc = "run"
    /\ pool.threads[t].pc = "assign"
    /\ proxies' = pool.threads[t].new
    /\ pool' = hand([pool EXCEPT !.threads[t].pc = "throttle"], t, pool.threads[t].proxy)
    /\ UNCHANGED <<now, expires, config, probe, keyed, ledger, crawl,
                   impl, target, delay, proxy_errors, last_time, call>>

\* Throttle.__call__ up to its wait: seconds is drawn and next_time computed
\* from the last_time that is recorded now
ThrottleEnter(t) ==
    /\ pool.pc = "run"
    /\ pool.threads[t].pc = "throttle"
    /\ \E seconds \in Jitter(throttle_delay(Unset)) :
          pool' = [pool EXCEPT !.threads[t].pc = "wait",
                               !.threads[t].next_time =
                                   next_time(pool.threads[t].proxy, seconds)]
    /\ UNCHANGED <<now, expires, config, probe, keyed, ledger, crawl,
                   impl, target, delay, proxies, proxy_errors, last_time, call>>

\* Throttle.__call__ from the end of its wait: next_time is recorded and the
\* call returns; the thread sends its request and comes to its next attempt
ThrottleLeave(t) ==
    /\ pool.pc = "run"
    /\ pool.threads[t].pc = "wait"
    /\ ~(pool.threads[t].next_time > now)
    /\ last_time' = assign(last_time, pool.threads[t].proxy, pool.threads[t].next_time)
    /\ LET ip == pool.threads[t].proxy IN
       pool' = [pool EXCEPT
                   !.threads[t] = IdleThread,
                   !.spacing = IF ip \in DOMAIN pool.returned
                               THEN now - pool.returned[ip] ELSE Unset,
                   !.returned = assign(@, ip, now)]
    /\ UNCHANGED <<now, expires, config, probe, keyed, ledger, crawl,
                   impl, target, delay, proxies, proxy_errors, call>>

\* time passes while the threads wait or are idle
Wait ==
    /\ pool.pc = "run"
    /\ now < MaxTime
    /\ now' = now + 1
    /\ UNCHANGED <<expires, config, probe, keyed, pool, ledger, crawl, downloadVars>>

\* the Downloads that the threads share: without proxies, with one or with two;
\* ws/download.py may have counted failures of a proxy before
PoolProxies == {<<>>, <<"p1">>, <<"p1", "p2">>}
PoolDelays == {1, 2}
PoolErrors == {<<>>, [ip \in {"p1"} |-> MaxErrors]}

\* a Download that the threads of the set share
Shared(threads) ==
    /\ now = 0
    /\ expires = Unset
    /\ config = {}
    /\ probe = NoProbe
    /\ keyed = NoKeyed
    /\ ledger = {}
    /\ crawl = NoCrawl
    /\ impl \in {"ws", "legacy"}
    /\ target = [url |-> "u", data |-> NoData]
    /\ delay \in PoolDelays
    /\ proxies \in PoolProxies
    /\ proxy_errors \in {e \in PoolErrors : e # <<>> => (impl = "ws" /\ proxies # <<>>)}
    /\ last_time = <<>>
    /\ call = IdleCall
    /\ pool = [pc |-> "run", threads |-> [t \in threads |-> IdleThread],
               configured |-> proxies, calls |-> 0, handed |-> <<>>,
               returned |-> <<>>, spacing |-> Unset]

\* one thread makes the calls, one after another
InitPool == Shared({"T1"})

\* two threads make them
InitThreads == Shared(PoolThreads)

\* the threads of the pool, if any
InPool == IF pool.pc = "none" THEN {} ELSE DOMAIN pool.threads

NextPool ==
    \/ Wait
    \/ \E t \in InPool : ProxyTest(t)
    \/ \E t \in InPool : ProxyPop(t)
    \/ \E t \in InPool : ProxyConcat(t)
    \/ \E t \in InPool : ProxyAssign(t)
    \/ \E t \in InPool : ThrottleEnter(t)
    \/ \E t \in InPool : ThrottleLeave(t)

SpecPool == InitPool /\ [][NextPool]_vars
SpecThreads == InitThreads /\ [][NextPool]_vars

(***************************************************************************)
(* Properties of the Throttle and of get_proxy                             *)
(***************************************************************************)
\* one thread makes the calls, one after another
Alone == pool.pc = "run" /\ DOMAIN pool.threads = {"T1"}

\* two threads make the calls
Together == pool.pc = "run" /\ DOMAIN pool.threads = PoolThreads

\* C23 (as claimed): two successive calls of the Throttle for the same key,
\* made one after another with delay d, return at least 0.5 * d apart, whatever
\* time passed between the calls and however many calls came before.
C23_SuccessiveCallsAreSpaced ==
    (Alone /\ pool.spacing # Unset) => 2 * pool.spacing >= delay

\* C23, what the code does keep: the times it records for a key are at least
\* 0.5 * d apart, and no call returns before the time it records.
C23_RecordedTimesAreSpaced ==
    [][ (Alone /\ last_time' # last_time) =>
            \A ip \in DOMAIN last_time' :
                /\ last_time'[ip] # count(last_time, ip) => last_time'[ip] <= now
                /\ (ip \in DOMAIN last_time /\ last_time'[ip] # last_time[ip])
                      => 2 * (last_time'[ip] - last_time[ip]) >= delay ]_vars

\* C24 (as claimed): calls of the Throttle that two threads make for the same
\* key at the same time are serialized: in every interleaving each return is
\* at least 0.5 * d after the return before it.
C24_ConcurrentCallsAreSpaced ==
    (Together /\ pool.spacing # Unset) => 2 * pool.spacing >= delay

\* thread t is not inside get_proxy
Outside(t) == pool.threads[t].pc \in {"idle", "throttle", "wait"}

\* the proxy that a call of get_proxy returned
proxy_of(h) ==
    IF h.proxy.cls = "dict" THEN h.proxy.http
    ELSE IF h.proxy.cls = "str" THEN h.proxy.value ELSE None

\* list holds the elements of other, each as often
Permutation(list, other) ==
    /\ Len(list) = Len(other)
    /\ \A i \in 1..Len(other) : occurrences(list, other[i]) = occurrences(other, other[i])

\* C25: called one call at a time, get_proxy returns the proxy at one end of
\* the list and moves it to the other end: with n proxies any n calls in a row
\* return each proxy once, and calls i and i + n return the same one; the list
\* stays a permutation of the configured proxies whatever failures were
\* counted; without proxies every call returns None.
C25_RoundRobin ==
    (Alone /\ Outside("T1")) =>
        LET n == Len(pool.configured)
            h == pool.handed
        IN  /\ Permutation(proxies, pool.configured)
            /\ n = 0 => \A i \in 1..Len(h) : h[i].proxy = [cls |-> "NoneType"]
            /\ n > 0 =>
                  /\ \A i \in 1..Len(h) :
                        /\ \E k \in 1..n : proxy_of(h[i]) = pool.configured[k]
                        /\ h[i].proxy.cls = "dict" => h[i].proxy.https = h[i].proxy.http
                  /\ Len(h) > 0 =>
                        /\ proxy_of(h[1]) = pool.configured[n]
                        /\ proxies[1] = proxy_of(h[Len(h)])
                  /\ \A i \in 1..Len(h), j \in 1..Len(h) :
                        (i < j /\ j - i < n) => proxy_of(h[i]) # proxy_of(h[j])
                  /\ \A i \in 1..Len(h) :
                        i + n <= Len(h) => proxy_of(h[i + n]) = proxy_of(h[i])

\* three calls went round two proxies, one of which had failed often
C25_Witness ==
    /\ Alone /\ Outside("T1") /\ Len(pool.configured) = 2
    /\ Len(pool.handed) = 3
    /\ proxy_of(pool.handed[1]) = "p2" /\ proxy_of(pool.handed[2]) = "p1"
    /\ proxy_of(pool.handed[3]) = "p2"
    /\ count(proxy_errors, "p1") = MaxErrors

\* C30 (as claimed): when two threads call get_proxy at the same time the list
\* stays a permutation of the configured proxies in every interleaving, no
\* proxy is lost or duplicated, and every call returns a configured proxy.
C30_ConcurrentCallsKeepTheList ==
    (Together /\ pool.configured # <<>>) =>
        /\ \A t \in DOMAIN pool.threads : pool.threads[t].pc # "raised"
        /\ (\A t \in DOMAIN pool.threads : Outside(t))
              => Permutation(proxies, pool.configured)
        /\ \A i \in 1..Len(pool.handed) :
              \E k \in 1..Len(pool.configured) :
                  proxy_of(pool.handed[i]) = pool.configured[k]

\* C32: the Throttle is scoped per route key.  A call for a key waits for a
\* time computed from the timestamp of that key alone (the present time when
\* the key has none), and on its return only the timestamp of that key
\* changes; without proxies the one key is None.
C32_ThrottleScopedPerKey ==
    [][ Alone =>
          LET t == pool.threads["T1"]
              u == pool'.threads["T1"]
          IN  /\ (t.pc = "throttle" /\ u.pc = "wait") =>
                    /\ u.proxy = t.proxy /\ last_time' = last_time
                    /\ IF t.proxy \in DOMAIN last_time
                       THEN \E seconds \in Jitter(delay) :
                                u.next_time = last_time[t.proxy] + seconds
                       ELSE u.next_time = now
              /\ (t.pc = "wait" /\ u.pc = "idle") =>
                    /\ DOMAIN last_time' = DOMAIN last_time \cup {t.proxy}
                    /\ last_time'[t.proxy] = t.next_time
                    /\ \A k \in DOMAIN last_time :
                          k # t.proxy => last_time'[k] = last_time[k]
              /\ pool.configured = <<>> => DOMAIN last_time' \subseteq {None} ]_vars

\* with a delay of 2 a call through p1 returned at the same time as the call
\* through p2 before it, and each key has its own timestamp
C32_Witness ==
    /\ Alone /\ delay = 2
    /\ DOMAIN pool.returned = {"p1", "p2"}
    /\ pool.returned["p1"] = pool.returned["p2"]
    /\ DOMAIN last_time = {"p1", "p2"}

(***************************************************************************)
(* Download.get through proxies, one call at a time                        *)
(***************************************************************************)
ProxyLists == {<<"p1">>, <<"p1", "p2">>}
ProxyOutcomes ==
    {o \in Outcomes : o.kind = "exception" \/ (o.status \in {200, 503} /\ ~o.redirected)}

InitProxy ==
    /\ now = 0
    /\ expires = Unset
    /\ config = {}
    /\ probe = NoProbe
    /\ keyed = NoKeyed
    /\ ledger = {}
    /\ crawl = NoCrawl
    /\ pool = NoPool
    /\ impl = "ws"
    /\ target = [url |-> "u", data |-> NoData]
    /\ delay = 0
    /\ proxies \in ProxyLists
    /\ proxy_errors = <<>>
    /\ last_time = <<>>
    /\ call = IdleCall

NextProxy ==
    \/ \E max_retries \in 0..MaxRetries :
          GetBegin(FALSE, FALSE, max_retries, TRUE, None, Unset)
    \/ ThrottlePass
    \/ \E outcome \in ProxyOutcomes : NetAttempt(outcome)
    \/ Return

SpecProxy == InitProxy /\ [][NextProxy]_vars

\* C29 (as claimed): the counter of a proxy goes up by one with every attempt
\* through it that ends in a transport-level exception and is set to zero by
\* every attempt through it that gets an HTTP response, so that after a fetch
\* that succeeded through a proxy the counter of that proxy is 0.
C29_CounterOfConsecutiveErrors ==
    [][ call.pc = "net" =>
            LET outcome == call'.log[Len(call'.log)] IN
            /\ outcome.kind = "exception" =>
                  count(proxy_errors', call.proxy) = count(proxy_errors, call.proxy) + 1
            /\ outcome.kind = "http" => count(proxy_errors', call.proxy) = 0 ]_vars

\* C29, what the code does keep: an exception counts one up, a response that is
\* retried resets the counter, and the response that ends the loop leaves the
\* counter as it is.
C29_ResetOnlyWhenRetried ==
    [][ call.pc = "net" =>
            LET outcome == call'.log[Len(call'.log)] IN
            /\ outcome.kind = "exception" =>
                  count(proxy_errors', call.proxy) = count(proxy_errors, call.proxy) + 1
            /\ outcome.kind = "http" =>
                  count(proxy_errors', call.proxy)
                     = IF should_retry(call'.response, call.num_failures, call.max_retries)
                       THEN 0 ELSE count(proxy_errors, call.proxy) ]_vars

(***************************************************************************)
(* Download.get with a delay and a list of proxies: the route of every     *)
(* attempt                                                                 *)
(***************************************************************************)
RouteProxies == {<<>>, <<"p1", "p2">>}

InitRoute ==
    /\ now = 0
    /\ expires = Unset
    /\ config = {}
    /\ probe = NoProbe
    /\ keyed = NoKeyed
    /\ ledger = {}
    /\ crawl = NoCrawl
    /\ pool = NoPool
    /\ impl \in {"ws", "legacy"}
    /\ target = [url |-> "u", data |-> NoData]
    /\ delay = DefaultDelay
    /\ proxies \in RouteProxies
    /\ proxy_errors = <<>>
    /\ last_time = <<>>
    /\ call = IdleCall

NextRoute ==
    \/ Tick
    \/ \E max_retries \in 0..MaxRetries, use_proxy \in BOOLEAN :
            GetBegin(FALSE, FALSE, max_retries, use_proxy, None, Unset)
    \/ ThrottlePass
    \/ \E outcome \in ProxyOutcomes : NetAttempt(outcome)
    \/ Return

SpecRoute == InitRoute /\ [][NextRoute]_vars

\* the attempt that starts goes through a proxy of the list
ThroughProxy(c) == proxies # <<>> /\ (impl = "legacy" \/ c.use_proxy)

\* C31: in every attempt of Download.get the proxy is acquired first, then the
\* Throttle waits under the key of that proxy (None without a proxy), then the
\* network call is made: an attempt starts by taking the proxy at the end of
\* the list and moving it to the front, the request is sent only from the wait
\* of its own attempt, when the time the Throttle waits for has come and is
\* recorded under the proxy of the attempt, and a retry takes a proxy anew,
\* which with two or more proxies is another one than the attempt before had.
C31_ProxyThenThrottleThenNetwork ==
    [][ /\ (call'.pc = "throttle" /\ call.pc # "throttle") =>
              /\ call.pc \in {"idle", "net"}
              /\ IF ThroughProxy(call')
                 THEN /\ call'.proxy = proxies[Len(proxies)]
                      /\ proxies' = <<call'.proxy>> \o SubSeq(proxies, 1, Len(proxies) - 1)
                 ELSE call'.proxy = None /\ proxies' = proxies
              /\ (call.pc = "net" /\ ThroughProxy(call') /\ Len(proxies) >= 2)
                    => call'.proxy # call.proxy
        /\ (call'.pc = "net" /\ call.pc # "net") =>
              /\ call.pc = "throttle"
              /\ call'.proxy = call.proxy /\ call'.num_failures = call.num_failures
              /\ call.next_time <= now
              /\ last_time' = [ip \in DOMAIN last_time \cup {call.proxy} |->
                                  IF ip = call.proxy THEN call.next_time ELSE last_time[ip]]
        /\ (call.pc # "idle" /\ call'.pc # "idle" /\ call'.log # call.log) =>
              /\ call.pc = "net" /\ Len(call'.log) = call.num_failures + 1
              /\ call.proxy \in DOMAIN last_time
              /\ last_time[call.proxy] = call.next_time ]_vars

\* the second attempt of a call is about to be sent through p1 after the
\* first went through p2, and the Throttle has recorded a time for each
C31_Witness ==
    /\ call.pc = "net" /\ call.num_failures = 1 /\ Len(call.log) = 1
    /\ call.proxy = "p1" /\ proxies = <<"p1", "p2">>
    /\ DOMAIN last_time = {"p1", "p2"}
    /\ last_time["p1"] = call.next_time

(***************************************************************************)
(* Download.get with a cache and proxies: calls that the cache serves      *)
(***************************************************************************)
ServeProxies == {<<>>, <<"p1", "p2">>}
ServeExpires == {Unset, 2}

InitServe ==
    /\ now = 0
    /\ expires \in ServeExpires
    /\ config = {}
    /\ probe = NoProbe
    /\ keyed = NoKeyed
    /\ ledger = {}
    /\ crawl = NoCrawl
    /\ pool = NoPool
    /\ impl \in {"ws", "legacy"}
    /\ target = [url |-> "u", data |-> NoData]
    /\ delay = DefaultDelay
    /\ proxies \in ServeProxies
    /\ proxy_errors = <<>>
    /\ last_time = <<>>
    /\ call = IdleCall

NextServe ==
    \/ Tick
    \/ \E read_cache \in BOOLEAN, write_cache \in BOOLEAN :
            GetBegin(read_cache, write_cache, Unset, TRUE, None, Unset)
    \/ ThrottlePass
    \/ \E outcome \in ProxyOutcomes : NetAttempt(outcome)
    \/ Return

SpecServe == InitServe /\ [][NextServe]_vars

\* C36: a call of Download.get that the cache serves changes nothing: the
\* table of the cache is as before (no write, updated not refreshed), no time
\* of the Throttle changes, the list of proxies is not rotated, no counter of
\* failures is touched and no network call is made; what it returns is the
\* entry of its key.
C36_CacheHitChangesNothing ==
    [][ (call.pc = "idle" /\ call'.pc = "done") =>
          /\ config' = config
          /\ last_time' = last_time
          /\ proxies' = proxies
          /\ proxy_errors' = proxy_errors
          /\ now' = now
          /\ call'.read_cache /\ call'.log = <<>>
          /\ \E r \in config : /\ r.key = call'.key /\ ~r.value.null
                                /\ r.value.pickled = call'.response ]_vars

\* a call with write_cache is served at time 2 the entry that was written at
\* an earlier time, with proxies configured and a Throttle time recorded
C36_Witness ==
    /\ call.pc = "done" /\ call.log = <<>> /\ call.read_cache /\ call.write_cache
    /\ now = 2 /\ proxies # <<>> /\ last_time # <<>>
    /\ \E r \in config : r.key = call.key /\ r.updated < 2

(***************************************************************************)
(* ws/services.py: GoogleMaps.geocode and GoogleMaps.load_result           *)
(***************************************************************************)
\* geocode(self, address, delay=5, max_retries=1, language=None)
GeocodeMaxRetries == 1

\* the text of a reply: the JSON of an answer, named by its status, or text
\* that is no JSON
GeocodeStatuses == {"OK", "ZERO_RESULTS", "OVER_QUERY_LIMIT", "REQUEST_DENIED"}
GeocodeTexts == GeocodeStatuses \cup {"<html>"}

\* json.loads(html): the dict of the answer, or ValueError
json_loads(html) ==
    IF html \in GeocodeStatuses THEN [t |-> "dict", status |-> html]
    ELSE [t |-> "ValueError"]

\* the entry of an answer over the query limit is left in the cache
load_result_keeping_the_entry(table, url, html) ==
    [cache |-> table, data |-> IF html = "OK" THEN "search_data" ELSE "{}"]

\* GoogleMaps.load_result(url, html): the data it returns and the cache it
\* leaves; the entry of an answer over the query limit is deleted
load_result(table, url, html) ==
    IF html = "" \/ html = None THEN [cache |-> table, data |-> "{}"]
    ELSE LET search_data == json_loads(html) IN
         IF search_data.t = "ValueError" THEN [cache |-> table, data |-> "{}"]
         ELSE IF search_data.status = "OK" THEN [cache |-> table, data |-> "search_data"]
         ELSE IF search_data.status = "OVER_QUERY_LIMIT"
              THEN [cache |-> __delitem__(table, url), data |-> "{}"]
              ELSE [cache |-> table, data |-> "{}"]

\* GoogleMaps.geocode up to the first wait of self.D.get(geocode_url,
\* delay=delay, max_retries=max_retries, use_proxy=False, auto_encoding=False)
geocode(max_retries) == GetBegin(TRUE, TRUE, max_retries, FALSE, None, delay)

\* GoogleMaps.geocode from the return of D.get: load_result reads the text of
\* the Response and geocode returns the location or an empty dict
GeocodeReturn ==
    /\ call.pc = "done"
    /\ LET loaded == load_result(config, target.url, call.response.text) IN
       /\ config' = loaded.cache
       /\ probe' = [op |-> "geocode", text |-> call.response.text,
                    status_code |-> call.response.status_code,
                    network |-> Len(call.log), data |-> loaded.data]
    /\ call' = IdleCall
    /\ UNCHANGED <<now, expires, keyed, pool, ledger, crawl,
                   impl, target, delay, proxies, proxy_errors, last_time>>

\* what the API can come back with
GeocodeOutcomes ==
    [kind : {"http"}, status : {200, 503}, text : GeocodeTexts, reason : {"reason"},
     redirected : {FALSE}]
    \cup [kind : {"exception"}, text : {"timed out"}]

GeocodeExpires == {Unset, 1}

InitGeocode ==
    /\ now = 0
    /\ expires \in GeocodeExpires
    /\ config = {}
    /\ probe = NoProbe
    /\ keyed = NoKeyed
    /\ ledger = {}
    /\ crawl = NoCrawl
    /\ pool = NoPool
    /\ impl = "ws"
    /\ target = [url |-> "geocode/json?address=a", data |-> NoData]
    /\ delay = DefaultDelay
    /\ proxies = <<>>
    /\ proxy_errors = <<>>
    /\ last_time = <<>>
    /\ call = IdleCall

NextGeocode ==
    \/ Tick
    \/ \E max_retries \in 0..GeocodeMaxRetries : geocode(max_retries)
    \/ ThrottlePass
    \/ \E outcome \in GeocodeOutcomes : NetAttempt(outcome)
    \/ GeocodeReturn

SpecGeocode == InitGeocode /\ [][NextGeocode]_vars

\* geocode returns: after a well-formed answer over the query limit the cache
\* has no entry of the geocode url; after any other well-formed answer the
\* cache is as the fetch left it, with the Response under the url
AnswerOverLimitForgotten ==
    (call.pc = "done" /\ call'.pc = "idle") =>
        IF call.response.text = "OVER_QUERY_LIMIT"
        THEN \A r \in config' : r.key # target.url
        ELSE call.response.text \in {"OK", "ZERO_RESULTS", "REQUEST_DENIED"} =>
                /\ config' = config
                /\ \E r \in config' : /\ r.key = target.url /\ ~r.value.null
                                       /\ r.value.pickled = call.response

\* a geocode starts after one that got a well-formed answer
NextGeocodeStarts ==
    /\ call.pc = "idle" /\ call'.pc # "idle" /\ probe.op = "geocode"
    /\ probe.text \in {"OK", "ZERO_RESULTS", "OVER_QUERY_LIMIT", "REQUEST_DENIED"}

\* C40 (as claimed): after a well-formed answer with status OVER_QUERY_LIMIT
\* the cache holds no entry for the geocode url and the next geocode of the
\* address goes to the network; after a well-formed answer with any other
\* status the entry stays and the next geocode makes no network call.
C40_OnlyOverLimitIsFetchedAgain ==
    [][ /\ AnswerOverLimitForgotten
        /\ NextGeocodeStarts =>
              IF probe.text = "OVER_QUERY_LIMIT"
              THEN call'.pc = "throttle" /\ call'.log = <<>>
              ELSE /\ call'.pc = "done" /\ call'.log = <<>>
                   /\ call'.response.text = probe.text ]_vars

\* C40 (amended): the same, but after an answer with another status the next
\* geocode is served from the cache only while the entry is fresh and unless
\* its HTTP status is a failure to retry and the geocode has a retry to spend.
C40_OthersServedWhileFreshAndFinal ==
    [][ /\ AnswerOverLimitForgotten
        /\ NextGeocodeStarts =>
              IF probe.text = "OVER_QUERY_LIMIT"
              THEN call'.pc = "throttle" /\ call'.log = <<>>
              ELSE IF /\ \E r \in config : r.key = target.url /\ FreshRow(r)
                      /\ ~( /\ probe.status_code \notin {200, 201, 404}
                            /\ call'.max_retries >= 1 )
                   THEN /\ call'.pc = "done" /\ call'.log = <<>>
                        /\ call'.response.text = probe.text
                   ELSE call'.pc = "throttle" /\ call'.log = <<>> ]_vars

\* the geocode before got an answer over the query limit; the cache is empty
\* and the next geocode has sent its request
C40_Witness ==
    /\ probe.op = "geocode" /\ probe.text = "OVER_QUERY_LIMIT" /\ probe.status_code = 200
    /\ probe.network = 1
    /\ config = {} /\ call.pc = "net" /\ call.read_cache /\ call.log = <<>>

====
